---- MODULE Spec2Model ----
(***************************************************************************)
(* External merge sort of kafka-stream-sorter                              *)
(* (src/internal/sort/external_sort.go): ExternalSort reads records from   *)
(* an input endpoint in chunks, sorts every chunk in memory by a           *)
(* pre-extracted key, spills it to a temp file and then merges the spill   *)
(* files with a min-heap while publishing batches to an output endpoint.   *)
(*                                                                         *)
(* Records, keys, error messages and spill files are byte sequences        *)
(* (sequences of byte values).  Slice indices are 0-based as in the Go     *)
(* source; At(s, i) reads s[i].                                            *)
(***************************************************************************)
EXTENDS Integers, Sequences, FiniteSets, Bags, TLC

(***************************************************************************)
(* Bounds of the model.  The record budget returned by                     *)
(* calculateAdaptiveChunkSize (500000..2000000 in the program) is any      *)
(* value in 1..MaxChunkSize and BatchCap stands for the capacity of the    *)
(* publish batch (1000 in the program); both are scaled down so that full  *)
(* chunks, partial chunks and full batches all occur on inputs of at most  *)
(* MaxInput records.  At most MaxFaults of the I/O errors that the code    *)
(* ignores (a failed read of a spill file, a failed os.Remove) happen in   *)
(* one run.                                                                *)
(***************************************************************************)
MaxInput == 3
MaxChunkSize == 2
BatchCap == 2
MaxFaults == 1

(***************************************************************************)
(* Byte values used by the source.                                         *)
(***************************************************************************)
COMMA == 44
NEWLINE == 10
MINUS == 45
DIGIT0 == 48
DIGIT9 == 57

At(s, i) == s[i + 1]

\* s[from:to] of Go, 0-based, `to` exclusive
Slice(s, from, to) == SubSeq(s, from + 1, to)

\* bytes.IndexByte: 0-based index of the first c in s, -1 when absent
IndexByte(s, c) ==
  LET hits == {i \in 1..Len(s) : s[i] = c}
  IN IF hits = {} THEN -1 ELSE (CHOOSE i \in hits : \A j \in hits : i <= j) - 1

\* bytes.LastIndexByte: 0-based index of the last c in s, -1 when absent
LastIndexByte(s, c) ==
  LET hits == {i \in 1..Len(s) : s[i] = c}
  IN IF hits = {} THEN -1 ELSE (CHOOSE i \in hits : \A j \in hits : i >= j) - 1

\* strings.Contains: sub occurs in s as a contiguous run
Contains(s, sub) ==
  \E i \in 0..(Len(s) - Len(sub)) : Slice(s, i, i + Len(sub)) = sub

\* Go's < on strings: byte-wise lexicographic, a proper prefix is smaller
StringLess(a, b) ==
  \E k \in 0..Len(a) :
    /\ k <= Len(b)
    /\ \A j \in 1..k : a[j] = b[j]
    /\ \/ (k = Len(a) /\ k < Len(b))
       \/ (k < Len(a) /\ k < Len(b) /\ a[k + 1] < b[k + 1])

(***************************************************************************)
(* Key extraction                                                          *)
(***************************************************************************)
\* an extractKeyString that looks for the second comma in rec instead of rest
extractKeyString_mut(rec, idx) ==
  CASE idx = 0 ->
         LET i == IndexByte(rec, COMMA)
         IN IF i = -1 THEN rec ELSE Slice(rec, 0, i)
    [] idx = 1 ->
         LET first == IndexByte(rec, COMMA)
         IN IF first = -1 THEN rec
            ELSE LET rest == Slice(rec, first + 1, Len(rec))
                     second == IndexByte(rec, COMMA)
                 IN IF second = -1 THEN rest ELSE Slice(rest, 0, second)
    [] idx = 3 ->
         LET last == LastIndexByte(rec, COMMA)
         IN IF last = -1 THEN rec ELSE Slice(rec, last + 1, Len(rec))
    [] OTHER -> rec

extractKeyString(rec, idx) ==
  CASE idx = 0 ->
         LET i == IndexByte(rec, COMMA)
         IN IF i = -1 THEN rec ELSE Slice(rec, 0, i)
    [] idx = 1 ->
         LET first == IndexByte(rec, COMMA)
         IN IF first = -1 THEN rec
            ELSE LET rest == Slice(rec, first + 1, Len(rec))
                     second == IndexByte(rest, COMMA)
                 IN IF second = -1 THEN rest ELSE Slice(rest, 0, second)
    [] idx = 3 ->
         LET last == LastIndexByte(rec, COMMA)
         IN IF last = -1 THEN rec ELSE Slice(rec, last + 1, Len(rec))
    [] OTHER -> rec

\* width of the machine word that stands for uint64 and int (64 bits in the
\* build, GOARCH=amd64)
WordBits == 12

RECURSIVE Pow2(_)
Pow2(n) == IF n = 0 THEN 1 ELSE 2 * Pow2(n - 1)

WordModulus == Pow2(WordBits)

\* a result of uint64 arithmetic
Uint(x) == x % WordModulus

\* the smallest unsigned word whose top bit is set
SignBit == Pow2(WordBits - 1)

\* the conversion int(u) of an unsigned word: same bits, two's complement
ToInt(u) == IF u >= SignBit THEN u - WordModulus ELSE u

\* a result of int64 arithmetic
Int64(x) == ToInt(Uint(x))

\* a scan loop that takes '1'..'9' for the digits
RECURSIVE extractIDLoop_mut(_, _, _, _)
extractIDLoop_mut(rec, i, n, neg) ==
  IF i >= Len(rec) THEN <<n, neg>>
  ELSE LET c == At(rec, i)
       IN IF c = COMMA THEN <<n, neg>>
          ELSE IF c = MINUS /\ i = 0 THEN extractIDLoop_mut(rec, i + 1, n, TRUE)
          ELSE IF c > DIGIT0 /\ c <= DIGIT9
               THEN extractIDLoop_mut(rec, i + 1, Int64(n * 10 + (c - DIGIT0)), neg)
          ELSE <<n, neg>>

\* the scan loop of extractID from offset i with accumulator n; yields <<n, neg>>
RECURSIVE extractIDLoop(_, _, _, _)
extractIDLoop(rec, i, n, neg) ==
  IF i >= Len(rec) THEN <<n, neg>>
  ELSE LET c == At(rec, i)
       IN IF c = COMMA THEN <<n, neg>>
          ELSE IF c = MINUS /\ i = 0 THEN extractIDLoop(rec, i + 1, n, TRUE)
          ELSE IF c >= DIGIT0 /\ c <= DIGIT9
               THEN extractIDLoop(rec, i + 1, Int64(n * 10 + (c - DIGIT0)), neg)
          ELSE <<n, neg>>

\* extractID: the accumulation and the negation are int64 operations
extractID(rec) ==
  LET r == extractIDLoop(rec, 0, 0, FALSE)
  IN IF r[2] THEN Int64(0 - r[1]) ELSE r[1]

(***************************************************************************)
(* Errors.  An error value carries the operation that produced it, whether *)
(* errors.Is(err, context.DeadlineExceeded) holds for it, and the text of  *)
(* err.Error() as a sequence of characters.  Nil is Go's nil error.        *)
(***************************************************************************)
Nil == [op |-> "nil", deadlineExceeded |-> FALSE, msg |-> <<>>]

\* context.DeadlineExceeded as returned by ReadMessage: "context deadline exceeded"
ErrDeadlineExceeded ==
  [op |-> "read", deadlineExceeded |-> TRUE,
   msg |-> <<"c", "o", "n", "t", "e", "x", "t", " ", "d", "e", "a", "d", "l", "i", "n", "e", " ", "e", "x", "c", "e", "e", "d", "e", "d">>]

\* a network error of the client: "i/o timeout"
ErrReadIOTimeout ==
  [op |-> "read", deadlineExceeded |-> FALSE, msg |-> <<"i", "/", "o", " ", "t", "i", "m", "e", "o", "u", "t">>]

\* io.EOF, returned by ReadMessage once the reader was closed: "EOF"
ErrReadEOF ==
  [op |-> "read", deadlineExceeded |-> FALSE, msg |-> <<"E", "O", "F">>]

\* the errors a ReadMessage call can return
ReadErrors == {ErrDeadlineExceeded, ErrReadIOTimeout, ErrReadEOF}

\* fmt.Errorf("invalid sortKeyIndex: %d", sortKeyIndex)
ErrInvalidSelector ==
  [op |-> "validate", deadlineExceeded |-> FALSE,
   msg |-> <<"i", "n", "v", "a", "l", "i", "d", " ", "s", "o", "r", "t", "K", "e", "y", "I", "n", "d", "e", "x">>]

ErrMkdir ==
  [op |-> "mkdir", deadlineExceeded |-> FALSE, msg |-> <<"p", "e", "r", "m", "i", "s", "s", "i", "o", "n", " ", "d", "e", "n", "i", "e", "d">>]

ErrSpillCreate ==
  [op |-> "create", deadlineExceeded |-> FALSE, msg |-> <<"p", "e", "r", "m", "i", "s", "s", "i", "o", "n", " ", "d", "e", "n", "i", "e", "d">>]

ErrSpillWrite ==
  [op |-> "write", deadlineExceeded |-> FALSE,
   msg |-> <<"n", "o", " ", "s", "p", "a", "c", "e", " ", "l", "e", "f", "t", " ", "o", "n", " ", "d", "e", "v", "i", "c", "e">>]

ErrSpillOpen ==
  [op |-> "open", deadlineExceeded |-> FALSE,
   msg |-> <<"n", "o", " ", "s", "u", "c", "h", " ", "f", "i", "l", "e", " ", "o", "r", " ", "d", "i", "r", "e", "c", "t", "o", "r", "y">>]

\* a failed read(2) on a spill file: "input/output error"
ErrSpillRead ==
  [op |-> "next", deadlineExceeded |-> FALSE,
   msg |-> <<"i", "n", "p", "u", "t", "/", "o", "u", "t", "p", "u", "t", " ", "e", "r", "r", "o", "r">>]

\* io.EOF of bufio.Reader.ReadBytes
EOF == [op |-> "next", deadlineExceeded |-> FALSE, msg |-> <<"E", "O", "F">>]

\* a failed WriteMessages call; its text also says "timeout"
ErrPublish ==
  [op |-> "publish", deadlineExceeded |-> FALSE,
   msg |-> <<"w", "r", "i", "t", "e", " ", "t", "i", "m", "e", "o", "u", "t">>]

\* errors.Is(err, context.DeadlineExceeded)
IsDeadlineExceeded(err) == err.deadlineExceeded

\* a classifier that only looks for "deadline"
isTimeout_mut(err) == Contains(err.msg, <<"d", "e", "a", "d", "l", "i", "n", "e">>)

isTimeout(err) ==
  \/ Contains(err.msg, <<"d", "e", "a", "d", "l", "i", "n", "e">>)
  \/ Contains(err.msg, <<"t", "i", "m", "e", "o", "u", "t">>)

\* a classifier that calls every error temporary
isTemporary_mut(err) == TRUE

isTemporary(err) == isTimeout(err)

\* the test of the ingest loop on a failed read: TRUE = break, FALSE = return err
ReadErrEndsChunk(err) ==
  \/ IsDeadlineExceeded(err) \/ isTimeout(err)
  \/ isTemporary(err)

(***************************************************************************)
(* Records of the input endpoint: CSV lines id,name,address,continent      *)
(* without embedded newline, as produced upstream.                         *)
(***************************************************************************)
\* "5,b,x,As"
Rec5b == <<53, 44, 98, 44, 120, 44, 65, 115>>
\* "-3,a,y,Eu"
RecNeg3a == <<45, 51, 44, 97, 44, 121, 44, 69, 117>>
\* "5,a,z,Eu": the id of Rec5b, the name and the continent of RecNeg3a
Rec5a == <<53, 44, 97, 44, 122, 44, 69, 117>>

\* "9,s,t,Oc": a record of an earlier run, not one of this run's input
RecStale == <<57, 44, 115, 44, 116, 44, 79, 99>>

RecordPool == {Rec5b, RecNeg3a, Rec5a}

RECURSIVE SeqsUpTo(_, _)
SeqsUpTo(S, n) ==
  IF n = 0 THEN {<<>>}
  ELSE LET shorter == SeqsUpTo(S, n - 1)
       IN shorter \cup {Append(s, x) : s \in {t \in shorter : Len(t) = n - 1}, x \in S}

Inputs == SeqsUpTo(RecordPool, MaxInput)

\* the values ExternalSort is called with as sortKeyIndex (2 = address, -1 and 4 name no field)
SelectorArgs == {-1, 0, 1, 2, 3, 4}

(***************************************************************************)
(* Keyed records and the in-memory chunk sort                              *)
(***************************************************************************)
\* a record that keeps msg.Value itself: its bytes stay in the client's buffer
CopyValue_mut == FALSE

\* rec := make([]byte, len(msg.Value)); copy(rec, msg.Value): the record's
\* bytes have a backing array of their own (own = TRUE)
CopyValue == TRUE

\* the recordWithKey built at ingest: only the key of the selector is filled in
KeyedRecord(rec, sortKeyIndex) ==
  IF sortKeyIndex = 0
  THEN [data |-> rec, keyStr |-> <<>>, keyInt |-> extractID(rec), own |-> CopyValue]
  ELSE [data |-> rec, keyStr |-> extractKeyString(rec, sortKeyIndex), keyInt |-> 0,
        own |-> CopyValue]

\* the client fills its read buffer with the payload of the next message:
\* every stored record whose bytes are that buffer now reads the new payload,
\* a record with bytes of its own is not touched
BufferReused(recs, value) ==
  [k \in 1..Len(recs) |-> IF recs[k].own THEN recs[k] ELSE [recs[k] EXCEPT !.data = value]]

\* a chunk sort that compares the text of the key field for every selector
ChunkLess_mut(a, b, sortKeyIndex) ==
  StringLess(extractKeyString(a.data, sortKeyIndex), extractKeyString(b.data, sortKeyIndex))

\* the less function handed to sort.Slice
ChunkLess(a, b, sortKeyIndex) ==
  IF sortKeyIndex = 0 THEN a.keyInt < b.keyInt ELSE StringLess(a.keyStr, b.keyStr)

Arrangements(n) ==
  {p \in [1..n -> 1..n] : \A i, j \in 1..n : i # j => p[i] # p[j]}

\* a chunk spilled in arrival order, without the sort
SortSlice_mut(recs, sortKeyIndex) == {recs}

\* sort.Slice is not stable: every arrangement of the chunk in which no element
\* is less than an earlier one is a possible result
SortSlice(recs, sortKeyIndex) ==
  {[i \in 1..Len(recs) |-> recs[p[i]]] : p \in
     {q \in Arrangements(Len(recs)) :
        \A i, j \in 1..Len(recs) :
          i < j => ~ChunkLess(recs[q[j]], recs[q[i]], sortKeyIndex)}}

(***************************************************************************)
(* Chunk store: writeChunk and fileScanner.next                            *)
(***************************************************************************)
\* the bytes writeChunk hands to the buffered writer: every record, then '\n'
RECURSIVE ChunkBytes(_)
ChunkBytes(recs) ==
  IF Len(recs) = 0 THEN <<>>
  ELSE recs[1].data \o <<NEWLINE>> \o ChunkBytes(Tail(recs))

\* bytes.TrimRight(line, "\n")
RECURSIVE TrimRightNewline(_)
TrimRightNewline(line) ==
  IF Len(line) > 0 /\ line[Len(line)] = NEWLINE
  THEN TrimRightNewline(SubSeq(line, 1, Len(line) - 1))
  ELSE line

\* bufio.Reader.ReadBytes('\n') at offset pos of a file that reads without fault:
\* the line up to and including the delimiter, or the rest of the file and io.EOF
ReadBytes(file, pos) ==
  LET rest == Slice(file, pos, Len(file))
      k == IndexByte(rest, NEWLINE)
  IN IF k = -1 THEN [line |-> rest, err |-> EOF]
     ELSE [line |-> Slice(rest, 0, k + 1), err |-> Nil]

\* a next() that reports io.EOF for a last line without newline
next_mut(rb) ==
  IF rb.err # Nil
  THEN [rec |-> <<>>, err |-> rb.err, n |-> Len(rb.line)]
  ELSE [rec |-> TrimRightNewline(rb.line), err |-> Nil, n |-> Len(rb.line)]

\* fileScanner.next on the result rb of ReadBytes: the record, the error and the
\* number of bytes consumed
next(rb) ==
  IF rb.err # Nil
  THEN IF rb.err = EOF /\ Len(rb.line) > 0
       THEN [rec |-> TrimRightNewline(rb.line), err |-> Nil, n |-> Len(rb.line)]
       ELSE [rec |-> <<>>, err |-> rb.err, n |-> Len(rb.line)]
  ELSE [rec |-> TrimRightNewline(rb.line), err |-> Nil, n |-> Len(rb.line)]

\* next() called on a scanner at offset pos until it returns an error: the
\* records returned and that error
RECURSIVE Drain(_, _)
Drain(file, pos) ==
  LET r == next(ReadBytes(file, pos))
  IN IF r.err # Nil THEN [recs |-> <<>>, err |-> r.err]
     ELSE LET more == Drain(file, pos + r.n)
          IN [recs |-> <<r.rec>> \o more.recs, err |-> more.err]

(***************************************************************************)
(* The min-heap of the merge: minHeap with container/heap's Push and Pop   *)
(***************************************************************************)
HeapItem(rec, i, sortKeyIndex) ==
  IF sortKeyIndex = 0
  THEN [keyStr |-> <<>>, keyInt |-> extractID(rec), useInt |-> TRUE, val |-> rec, i |-> i]
  ELSE [keyStr |-> extractKeyString(rec, sortKeyIndex), keyInt |-> 0, useInt |-> FALSE,
        val |-> rec, i |-> i]

\* Less with the comparisons turned around (a max-heap)
Less_mut(hp, i, j) ==
  IF At(hp, i).useInt \/ At(hp, j).useInt
  THEN At(hp, i).keyInt > At(hp, j).keyInt
  ELSE StringLess(At(hp, j).keyStr, At(hp, i).keyStr)

\* minHeap.Less
Less(hp, i, j) ==
  IF At(hp, i).useInt \/ At(hp, j).useInt
  THEN At(hp, i).keyInt < At(hp, j).keyInt
  ELSE StringLess(At(hp, i).keyStr, At(hp, j).keyStr)

\* minHeap.Swap
Swap(hp, i, j) ==
  [k \in 1..Len(hp) |-> IF k = i + 1 THEN hp[j + 1] ELSE IF k = j + 1 THEN hp[i + 1] ELSE hp[k]]

\* container/heap up(h, j)
RECURSIVE HeapUp(_, _)
HeapUp(hp, j) ==
  LET i == IF j = 0 THEN 0 ELSE (j - 1) \div 2
  IN IF i = j \/ ~Less(hp, j, i) THEN hp
     ELSE HeapUp(Swap(hp, i, j), i)

\* container/heap down(h, i, n)
RECURSIVE HeapDown(_, _, _)
HeapDown(hp, i, n) ==
  LET j1 == 2 * i + 1
  IN IF j1 >= n THEN hp
     ELSE LET j2 == j1 + 1
              j == IF j2 < n /\ Less(hp, j2, j1) THEN j2 ELSE j1
          IN IF ~Less(hp, j, i) THEN hp
             ELSE HeapDown(Swap(hp, i, j), j, n)

\* heap.Push(h, x): minHeap.Push appends, then up(h, Len-1)
HeapPush(hp, x) == HeapUp(Append(hp, x), Len(hp))

\* heap.Pop(h): swap root and last, down(h, 0, n), then minHeap.Pop takes the last
HeapPop(hp) ==
  LET n == Len(hp) - 1
      moved == HeapDown(Swap(hp, 0, n), 0, n)
  IN [item |-> moved[n + 1], heap |-> SubSeq(moved, 1, n)]

(***************************************************************************)
(* State of one call of ExternalSort                                       *)
(***************************************************************************)
VARIABLES
  input,            \* the records held by the input endpoint, in delivery order
  sortKeyIndex,     \* the argument sortKeyIndex
  pc,               \* position of ExternalSort; "done" once it has returned
  result,           \* the returned error (Nil = success), meaningful at "done"
  tempDirCreated,   \* os.MkdirAll(tempDir) has succeeded
  chunkSize,        \* the budget chunkSize, 0 before it is computed
  readPos,          \* number of messages the reader has delivered
  readsIssued,      \* number of ReadMessage calls made
  lastReadErr,      \* error of the latest ReadMessage call, Nil when it delivered
  records,          \* the chunk being built; kept until the next chunk starts
  totalRecordsRead, \* the counter totalRecordsRead
  tempFiles,        \* the slice tempFiles: N stands for path tempDir/chunk_N.tmp
  spilled,          \* len(records) of every chunk spilled, as logged per chunk
  fs,               \* temp directory: N -> [exists, bytes] for chunk_N.tmp
  mergeCalls,       \* number of calls of kWayMergeToKafka
  scanners,         \* the slice scanners: per file "nil" or an open/closed cursor
  mi,               \* loop index of the open loop and of the heap-init loop
  h,                \* the min-heap
  item,             \* the heap item popped in the current iteration
  batch,            \* the publish batch
  mergedCount,      \* the counter mergedCount
  publishCalls,     \* every WriteMessages call: its batch and its error
  cursorErrs,       \* files on which next() returned an error other than io.EOF
  tempDir0,         \* what the temp directory held when ExternalSort was called
  removeCalls,      \* the paths os.Remove has been called on
  pureFn,           \* the function applied on its own, "none" in a run of ExternalSort
  pureIn,           \* its arguments
  pureOut,          \* <<>> before the call, <<value>> after it
  sorters,          \* the sorter commands of cmd/sorter, one record per process
  fileOps,          \* every directory and chunk-file operation of a sorter command
  deadline,         \* the chunk's read deadline: "none" outside a chunk, "pending", "passed"
  producer          \* the state of cmd/producer: channels, goroutines, counters

vars == <<input, sortKeyIndex, pc, result, tempDirCreated, chunkSize, readPos, readsIssued,
          lastReadErr, records, totalRecordsRead, tempFiles, spilled, fs, mergeCalls,
          scanners, mi, h, item, batch, mergedCount, publishCalls, cursorErrs, tempDir0,
          removeCalls, pureFn, pureIn, pureOut, sorters, fileOps, deadline, producer>>

\* the sorter processes of one host
Sorters == {1, 2}

\* a sorter process about to run main; exit = -1 while it runs
NewSorter(args, base) ==
  [args |-> args, base |-> base, pc |-> "main", key |-> <<>>, sortIdx |-> 0,
   clients |-> FALSE, tempDir |-> <<>>, files |-> <<>>, opened |-> 0, removed |-> 0,
   failed |-> FALSE, exit |-> -1]

\* cmd/producer is not running
NoProducer == producer = <<>>

\* no sorter command is running
NoCommand ==
  /\ sorters = [p \in Sorters |-> NewSorter(<<>>, <<>>)]
  /\ fileOps = {}

\* most chunks a run can spill: one per record when the budget is 1
MaxFiles == MaxInput

NoFile == [exists |-> FALSE, bytes |-> <<>>]

\* chunk_N.tmp as an earlier run on another topic content left it: that run
\* created the file (line 151-155) and returned an error before line 189
StaleFile == [exists |-> TRUE, bytes |-> ChunkBytes(<<[data |-> RecStale]>>)]

\* the temp directory when ExternalSort is called: empty, or holding the spill
\* files of an earlier run that failed after its chunking phase
TempDirs == {[n \in 0..(MaxFiles - 1) |-> NoFile], [n \in 0..(MaxFiles - 1) |-> StaleFile]}

NoScanner == [state |-> "nil", pos |-> 0]

NoItem == [keyStr |-> <<>>, keyInt |-> 0, useInt |-> FALSE, val |-> <<>>, i |-> -1]

Init ==
  /\ input \in Inputs
  /\ sortKeyIndex \in SelectorArgs
  /\ pc = "start"
  /\ result = Nil
  /\ tempDirCreated = FALSE
  /\ chunkSize = 0
  /\ readPos = 0
  /\ readsIssued = 0
  /\ lastReadErr = Nil
  /\ records = <<>>
  /\ totalRecordsRead = 0
  /\ tempFiles = <<>>
  /\ spilled = <<>>
  /\ tempDir0 \in TempDirs
  /\ fs = tempDir0
  /\ removeCalls = {}
  /\ deadline = "none"
  /\ NoCommand
  /\ NoProducer
  /\ pureFn = "none"
  /\ pureIn = <<>>
  /\ pureOut = <<>>
  /\ mergeCalls = 0
  /\ scanners = <<>>
  /\ mi = 0
  /\ h = <<>>
  /\ item = NoItem
  /\ batch = <<>>
  /\ mergedCount = 0
  /\ publishCalls = <<>>
  /\ cursorErrs = {}

ioVars == <<readPos, readsIssued, lastReadErr, records, totalRecordsRead, deadline>>
spillVars == <<tempFiles, spilled, fs>>
mergeVars == <<mergeCalls, scanners, mi, h, item, batch, mergedCount, publishCalls, cursorErrs>>
pureVars == <<pureFn, pureIn, pureOut>>
cmdVars == <<sorters, fileOps>>
argVars == <<input, sortKeyIndex, chunkSize, tempDir0, pureVars, cmdVars, producer>>

\* ExternalSort returns err
Return(err) == pc' = "done" /\ result' = err

(***************************************************************************)
(* ExternalSort: validation and temp directory                             *)
(***************************************************************************)
\* a validation that lets the address field (index 2) through
ValidSelector_mut(idx) == idx >= 0 /\ idx <= 3

ValidSelector(idx) == ~(idx # 0 /\ idx # 1 /\ idx # 3)

ValidateSelector ==
  /\ pc = "start"
  /\ IF ValidSelector(sortKeyIndex)
     THEN pc' = "mkdir" /\ result' = result
     ELSE Return(ErrInvalidSelector)
  /\ UNCHANGED <<argVars, removeCalls, tempDirCreated, ioVars, spillVars, mergeVars>>

\* os.MkdirAll succeeds; calculateAdaptiveChunkSize then picks the budget from
\* the memory statistics of the moment
MkdirAll ==
  /\ pc = "mkdir"
  /\ tempDirCreated' = TRUE
  /\ chunkSize' \in 1..MaxChunkSize
  /\ pc' = "chunk_begin"
  /\ UNCHANGED <<input, sortKeyIndex, tempDir0, pureVars, cmdVars, producer, removeCalls, result, ioVars,
                 spillVars, mergeVars>>

MkdirAllFails ==
  /\ pc = "mkdir"
  /\ Return(ErrMkdir)
  /\ UNCHANGED <<argVars, removeCalls, tempDirCreated, ioVars, spillVars, mergeVars>>

(***************************************************************************)
(* Chunking phase                                                          *)
(***************************************************************************)
\* top of the outer loop: a fresh records slice (and a fresh deadline)
BeginChunk ==
  /\ pc = "chunk_begin"
  /\ records' = <<>>
  /\ deadline' = "pending"
  /\ pc' = "ingest"
  /\ UNCHANGED <<argVars, removeCalls, result, tempDirCreated, readPos, readsIssued, lastReadErr,
                 totalRecordsRead, spillVars, mergeVars>>

\* an inner loop that tests the budget one record too late
ChunkHasRoom_mut(recs) == Len(recs) <= chunkSize

\* `for len(records) < chunkSize`
ChunkHasRoom(recs) == Len(recs) < chunkSize

\* 5 s after the chunk started, or any later moment while the chunk is being
\* read, sorted or written
DeadlinePasses ==
  /\ pc \in {"ingest", "chunk_end"}
  /\ deadline = "pending"
  /\ deadline' = "passed"
  /\ UNCHANGED <<argVars, removeCalls, pc, result, tempDirCreated, readPos, readsIssued,
                 lastReadErr, records, totalRecordsRead, spillVars, mergeVars>>

\* a deadline taken anew before every read: no read starts with its context expired
CtxExpired_mut(dl) == FALSE

\* readCtx := context.WithDeadline(baseCtx, deadline): the context of a read
\* is expired from the start when the chunk's deadline has passed
CtxExpired(dl) == dl = "passed"

\* ReadMessage delivers the next message (its context has not expired); the
\* payload is copied and keyed
ReadRecord ==
  /\ pc = "ingest"
  /\ ChunkHasRoom(records)
  /\ ~CtxExpired(deadline)
  /\ deadline' = deadline
  /\ readPos < Len(input)
  /\ readsIssued' = readsIssued + 1
  /\ readPos' = readPos + 1
  /\ lastReadErr' = Nil
  /\ records' = Append(BufferReused(records, input[readPos + 1]),
                        KeyedRecord(input[readPos + 1], sortKeyIndex))
  /\ totalRecordsRead' = totalRecordsRead + 1
  /\ pc' = IF ChunkHasRoom(records') THEN "ingest" ELSE "chunk_end"
  /\ UNCHANGED <<argVars, removeCalls, result, tempDirCreated, spillVars, mergeVars>>

\* ReadMessage fails: the chunk's deadline passed (with or without unread
\* messages left on the endpoint) or the client reports another error
ReadFails ==
  /\ pc = "ingest"
  /\ ChunkHasRoom(records)
  /\ \E err \in ReadErrors :
       /\ lastReadErr' = err
       /\ IF ReadErrEndsChunk(err)
          THEN pc' = "chunk_end" /\ result' = result /\ deadline' = deadline
          ELSE Return(err) /\ deadline' = "none"
  /\ readsIssued' = readsIssued + 1
  /\ UNCHANGED <<argVars, removeCalls, tempDirCreated, readPos, records, totalRecordsRead,
                 spillVars, mergeVars>>

\* the loop without the break on an empty chunk
ChunkIsEmpty_mut(recs) == FALSE

\* len(records) == 0 after the ingest loop
ChunkIsEmpty(recs) == Len(recs) = 0

\* the loop without the break after a short chunk
ChunkWasFull_mut(recs) == TRUE

\* the test after a spill: TRUE = start another chunk, FALSE = "drained topic", break
ChunkWasFull(recs) == ~(Len(recs) < chunkSize)

\* an ingest attempt that yielded nothing ends the chunking loop
EmptyChunk ==
  /\ pc = "chunk_end"
  /\ ChunkIsEmpty(records)
  /\ pc' = "phase1_end"
  /\ deadline' = "none"
  /\ UNCHANGED <<argVars, removeCalls, result, tempDirCreated, readPos, readsIssued, lastReadErr,
                 records, totalRecordsRead, spillVars, mergeVars>>

\* a loop that goes round again after every spill
AfterSpill_mut(recs) == "chunk_begin"

\* where the loop goes after a spill: round again, or `break` when
\* len(records) < chunkSize
AfterSpill(recs) == IF ChunkWasFull(recs) THEN "chunk_begin" ELSE "phase1_end"

\* a path without the running number: every chunk goes to chunk_0.tmp
ChunkPath_mut(files) == 0

\* fpath := filepath.Join(tempDir, fmt.Sprintf("chunk_%d.tmp", len(tempFiles)))
ChunkPath(files) == Len(files)

\* sort.Slice, then writeChunk succeeds on chunk_<len(tempFiles)>.tmp
SpillChunk ==
  /\ pc = "chunk_end"
  /\ ~ChunkIsEmpty(records)
  /\ \E sorted \in SortSlice(records, sortKeyIndex) :
       /\ records' = sorted
       /\ fs' = [fs EXCEPT ![ChunkPath(tempFiles)] =
                   [exists |-> TRUE, bytes |-> ChunkBytes(sorted)]]
  /\ tempFiles' = Append(tempFiles, ChunkPath(tempFiles))
  /\ spilled' = Append(spilled, Len(records))
  /\ pc' = AfterSpill(records)
  /\ deadline' = "none"
  /\ UNCHANGED <<argVars, removeCalls, result, tempDirCreated, readPos, readsIssued, lastReadErr,
                 totalRecordsRead, mergeVars>>

\* sort.Slice, then writeChunk fails: os.Create fails (the path is left as it
\* was) or a write or the flush fails (the file holds a proper prefix)
SpillChunkFails ==
  /\ pc = "chunk_end"
  /\ ~ChunkIsEmpty(records)
  /\ \E sorted \in SortSlice(records, sortKeyIndex) :
       /\ records' = sorted
       /\ \/ /\ fs' = fs
             /\ Return(ErrSpillCreate)
          \/ /\ \E k \in 0..(Len(ChunkBytes(sorted)) - 1) :
                  fs' = [fs EXCEPT ![ChunkPath(tempFiles)] =
                           [exists |-> TRUE, bytes |-> SubSeq(ChunkBytes(sorted), 1, k)]]
             /\ Return(ErrSpillWrite)
  /\ deadline' = "none"
  /\ UNCHANGED <<argVars, removeCalls, tempDirCreated, readPos, readsIssued, lastReadErr,
                 totalRecordsRead, tempFiles, spilled, mergeVars>>

\* len(tempFiles) == 0: nothing to merge, return nil
NoDataExit ==
  /\ pc = "phase1_end"
  /\ Len(tempFiles) = 0
  /\ Return(Nil)
  /\ UNCHANGED <<argVars, removeCalls, tempDirCreated, ioVars, spillVars, mergeVars>>

(***************************************************************************)
(* Merge phase: kWayMergeToKafka                                           *)
(***************************************************************************)
\* ExternalSort calls kWayMergeToKafka(ctx, tempFiles, kafkaWriter, sortKeyIndex)
StartMerge ==
  /\ pc = "phase1_end"
  /\ Len(tempFiles) # 0
  /\ mergeCalls' = mergeCalls + 1
  /\ scanners' = [k \in 1..Len(tempFiles) |-> NoScanner]
  /\ mi' = 0
  /\ h' = <<>>
  /\ batch' = <<>>
  /\ mergedCount' = 0
  /\ pc' = "merge_open"
  /\ UNCHANGED <<argVars, removeCalls, result, tempDirCreated, ioVars, spillVars, item,
                 publishCalls, cursorErrs>>

\* the deferred function of kWayMergeToKafka: close every scanner that is not nil
CloseAll(scs) ==
  [k \in 1..Len(scs) |->
     IF scs[k].state = "nil" THEN scs[k] ELSE [scs[k] EXCEPT !.state = "closed"]]

\* newFileScanner(files[mi]) succeeds
OpenScanner ==
  /\ pc = "merge_open"
  /\ mi < Len(tempFiles)
  /\ fs[tempFiles[mi + 1]].exists
  /\ scanners' = [scanners EXCEPT ![mi + 1] = [state |-> "open", pos |-> 0]]
  /\ IF mi + 1 < Len(tempFiles)
     THEN mi' = mi + 1 /\ pc' = pc
     ELSE mi' = 0 /\ pc' = "heap_init"
  /\ UNCHANGED <<argVars, removeCalls, result, tempDirCreated, ioVars, spillVars, mergeCalls, h, item,
                 batch, mergedCount, publishCalls, cursorErrs>>

\* newFileScanner(files[mi]) fails: return 0, err before the defer is registered,
\* the scanners opened so far stay open
OpenScannerFails ==
  /\ pc = "merge_open"
  /\ mi < Len(tempFiles)
  /\ Return(ErrSpillOpen)
  /\ UNCHANGED <<argVars, removeCalls, tempDirCreated, ioVars, spillVars, mergeVars>>

\* what ReadBytes can return on the cursor of file index i: the bytes of the
\* file, or nothing and a read error of the device
ReadResults(i) ==
  {ReadBytes(fs[tempFiles[i + 1]].bytes, scanners[i + 1].pos)}
    \cup IF Cardinality(cursorErrs) < MaxFaults
         THEN {[line |-> <<>>, err |-> ErrSpillRead]}
         ELSE {}

\* a pull that pushes whatever next() returned, without testing err
PushNext_mut(hp, r, i) == HeapPush(hp, HeapItem(r.rec, i, sortKeyIndex))

\* `if rec, err := sc.next(); err == nil { heap.Push(...) }` for file index i:
\* the heap after the statement
PushNext(hp, r, i) ==
  IF r.err = Nil THEN HeapPush(hp, HeapItem(r.rec, i, sortKeyIndex)) ELSE hp

\* a heap initialisation that gives up on a cursor without a first record
InitPull_mut ==
  /\ pc = "heap_init"
  /\ mi < Len(scanners)
  /\ \E rb \in ReadResults(mi) :
       LET r == next(rb)
       IN /\ h' = PushNext(h, r, mi)
          /\ scanners' = IF r.err = Nil THEN [scanners EXCEPT ![mi + 1].pos = @ + r.n]
                         ELSE CloseAll(scanners)
          /\ cursorErrs' = IF r.err # Nil /\ r.err # EOF THEN cursorErrs \cup {mi}
                           ELSE cursorErrs
          /\ IF r.err # Nil
             THEN mi' = mi /\ Return(r.err)
             ELSE /\ result' = result
                  /\ IF mi + 1 < Len(scanners)
                     THEN mi' = mi + 1 /\ pc' = pc
                     ELSE mi' = 0 /\ pc' = "merge_loop"
  /\ UNCHANGED <<argVars, removeCalls, tempDirCreated, ioVars, spillVars, mergeCalls, item,
                 batch, mergedCount, publishCalls>>

\* heap initialisation: the first record of scanner mi
InitPull ==
  /\ pc = "heap_init"
  /\ mi < Len(scanners)
  /\ \E rb \in ReadResults(mi) :
       LET r == next(rb)
       IN /\ h' = PushNext(h, r, mi)
          /\ scanners' = [scanners EXCEPT ![mi + 1].pos = @ + r.n]
          /\ cursorErrs' = IF r.err # Nil /\ r.err # EOF THEN cursorErrs \cup {mi}
                           ELSE cursorErrs
  /\ IF mi + 1 < Len(scanners)
     THEN mi' = mi + 1 /\ pc' = pc
     ELSE mi' = 0 /\ pc' = "merge_loop"
  /\ UNCHANGED <<argVars, removeCalls, result, tempDirCreated, ioVars, spillVars, mergeCalls, item,
                 batch, mergedCount, publishCalls>>

\* a merge loop that pops and buffers without counting
MergePop_mut ==
  /\ pc = "merge_loop"
  /\ Len(h) > 0
  /\ LET p == HeapPop(h)
     IN /\ item' = p.item
        /\ h' = p.heap
        /\ batch' = Append(batch, p.item.val)
  /\ mergedCount' = mergedCount
  /\ pc' = IF Len(batch') >= BatchCap THEN "flush_full" ELSE "advance"
  /\ UNCHANGED <<argVars, removeCalls, result, tempDirCreated, ioVars, spillVars, mergeCalls, scanners,
                 mi, publishCalls, cursorErrs>>

\* top of the merge loop: pop the smallest item and append it to the batch
MergePop ==
  /\ pc = "merge_loop"
  /\ Len(h) > 0
  /\ LET p == HeapPop(h)
     IN /\ item' = p.item
        /\ h' = p.heap
        /\ batch' = Append(batch, p.item.val)
  /\ mergedCount' = mergedCount + 1
  /\ pc' = IF Len(batch') >= BatchCap THEN "flush_full" ELSE "advance"
  /\ UNCHANGED <<argVars, removeCalls, result, tempDirCreated, ioVars, spillVars, mergeCalls, scanners,
                 mi, publishCalls, cursorErrs>>

\* flush() of a full batch: WriteMessages succeeds, batch = batch[:0]
FlushFull ==
  /\ pc = "flush_full"
  /\ publishCalls' = Append(publishCalls, [batch |-> batch, err |-> Nil])
  /\ batch' = <<>>
  /\ pc' = "advance"
  /\ UNCHANGED <<argVars, removeCalls, result, tempDirCreated, ioVars, spillVars, mergeCalls, scanners,
                 mi, h, item, mergedCount, cursorErrs>>

\* a merge loop that drops the error of a failed flush and goes on
FlushFullFails_mut ==
  /\ pc = "flush_full"
  /\ publishCalls' = Append(publishCalls, [batch |-> batch, err |-> ErrPublish])
  /\ pc' = "advance"
  /\ UNCHANGED <<argVars, removeCalls, result, tempDirCreated, ioVars, spillVars, mergeCalls, scanners,
                 mi, h, item, batch, mergedCount, cursorErrs>>

\* flush() of a full batch: WriteMessages fails; kWayMergeToKafka returns
\* mergedCount, err, its defer closes the scanners, ExternalSort returns err
FlushFullFails ==
  /\ pc = "flush_full"
  /\ publishCalls' = Append(publishCalls, [batch |-> batch, err |-> ErrPublish])
  /\ scanners' = CloseAll(scanners)
  /\ Return(ErrPublish)
  /\ UNCHANGED <<argVars, removeCalls, tempDirCreated, ioVars, spillVars, mergeCalls, mi, h, item,
                 batch, mergedCount, cursorErrs>>

\* a merge loop that closes a cursor as soon as its file is exhausted
AdvanceCursor_mut ==
  /\ pc = "advance"
  /\ \E rb \in ReadResults(item.i) :
       LET r == next(rb)
       IN /\ h' = PushNext(h, r, item.i)
          /\ scanners' = [scanners EXCEPT ![item.i + 1] =
                            IF r.err = Nil THEN [@ EXCEPT !.pos = @ + r.n]
                            ELSE [@ EXCEPT !.state = "closed"]]
          /\ cursorErrs' = IF r.err # Nil /\ r.err # EOF THEN cursorErrs \cup {item.i}
                           ELSE cursorErrs
  /\ pc' = "merge_loop"
  /\ UNCHANGED <<argVars, removeCalls, result, tempDirCreated, ioVars, spillVars, mergeCalls,
                 mi, item, batch, mergedCount, publishCalls>>

\* pull the next record of the popped item's file and push it
AdvanceCursor ==
  /\ pc = "advance"
  /\ \E rb \in ReadResults(item.i) :
       LET r == next(rb)
       IN /\ h' = PushNext(h, r, item.i)
          /\ scanners' = [scanners EXCEPT ![item.i + 1].pos = @ + r.n]
          /\ cursorErrs' = IF r.err # Nil /\ r.err # EOF THEN cursorErrs \cup {item.i}
                           ELSE cursorErrs
  /\ pc' = "merge_loop"
  /\ UNCHANGED <<argVars, removeCalls, result, tempDirCreated, ioVars, spillVars, mergeCalls, mi, item,
                 batch, mergedCount, publishCalls>>

\* a flush() without the test len(batch) == 0: WriteMessages is called with nothing
FinalFlushEmpty_mut ==
  /\ pc = "merge_loop"
  /\ Len(h) = 0
  /\ Len(batch) = 0
  /\ publishCalls' = Append(publishCalls, [batch |-> batch, err |-> Nil])
  /\ scanners' = CloseAll(scanners)
  /\ pc' = "cleanup"
  /\ UNCHANGED <<argVars, removeCalls, result, tempDirCreated, ioVars, spillVars, mergeCalls,
                 mi, h, item, batch, mergedCount, cursorErrs>>

\* heap empty, final flush() with nothing buffered: no WriteMessages call
FinalFlushEmpty ==
  /\ pc = "merge_loop"
  /\ Len(h) = 0
  /\ Len(batch) = 0
  /\ scanners' = CloseAll(scanners)
  /\ pc' = "cleanup"
  /\ UNCHANGED <<argVars, removeCalls, result, tempDirCreated, ioVars, spillVars, mergeCalls, mi, h,
                 item, batch, mergedCount, publishCalls, cursorErrs>>

\* heap empty, final flush() publishes the remainder
FinalFlush ==
  /\ pc = "merge_loop"
  /\ Len(h) = 0
  /\ Len(batch) # 0
  /\ publishCalls' = Append(publishCalls, [batch |-> batch, err |-> Nil])
  /\ batch' = <<>>
  /\ scanners' = CloseAll(scanners)
  /\ pc' = "cleanup"
  /\ UNCHANGED <<argVars, removeCalls, result, tempDirCreated, ioVars, spillVars, mergeCalls, mi, h,
                 item, mergedCount, cursorErrs>>

\* an ExternalSort that goes on to the removal loop after a failed final flush
FinalFlushFails_mut ==
  /\ pc = "merge_loop"
  /\ Len(h) = 0
  /\ Len(batch) # 0
  /\ publishCalls' = Append(publishCalls, [batch |-> batch, err |-> ErrPublish])
  /\ scanners' = CloseAll(scanners)
  /\ pc' = "cleanup"
  /\ UNCHANGED <<argVars, removeCalls, result, tempDirCreated, ioVars, spillVars, mergeCalls,
                 mi, h, item, batch, mergedCount, cursorErrs>>

\* heap empty, final flush() fails
FinalFlushFails ==
  /\ pc = "merge_loop"
  /\ Len(h) = 0
  /\ Len(batch) # 0
  /\ publishCalls' = Append(publishCalls, [batch |-> batch, err |-> ErrPublish])
  /\ scanners' = CloseAll(scanners)
  /\ Return(ErrPublish)
  /\ UNCHANGED <<argVars, removeCalls, tempDirCreated, ioVars, spillVars, mergeCalls, mi, h, item,
                 batch, mergedCount, cursorErrs>>

\* os.Remove of every temp file, errors ignored: the files of `kept` are the
\* ones whose removal fails
Cleanup ==
  /\ pc = "cleanup"
  /\ \E kept \in SUBSET {tempFiles[k] : k \in 1..Len(tempFiles)} :
       /\ Cardinality(kept) + Cardinality(cursorErrs) <= MaxFaults
       /\ fs' = [n \in DOMAIN fs |->
                   IF n \in {tempFiles[k] : k \in 1..Len(tempFiles)} \ kept THEN NoFile
                   ELSE fs[n]]
  /\ removeCalls' = removeCalls \cup {tempFiles[k] : k \in 1..Len(tempFiles)}
  /\ Return(Nil)
  /\ UNCHANGED <<argVars, tempDirCreated, ioVars, tempFiles, spilled, mergeVars>>

Next ==
  \/ ValidateSelector
  \/ MkdirAll
  \/ MkdirAllFails
  \/ BeginChunk
  \/ DeadlinePasses
  \/ ReadRecord
  \/ ReadFails
  \/ EmptyChunk
  \/ SpillChunk
  \/ SpillChunkFails
  \/ NoDataExit
  \/ StartMerge
  \/ OpenScanner
  \/ OpenScannerFails
  \/ InitPull
  \/ MergePop
  \/ FlushFull
  \/ FlushFullFails
  \/ AdvanceCursor
  \/ FinalFlushEmpty
  \/ FinalFlush
  \/ FinalFlushFails
  \/ Cleanup

Spec == Init /\ [][Next]_vars

\* the runs followed to their end: the numeric selector and one text selector,
\* on a temp directory that was empty at the call
InitLive ==
  /\ Init
  /\ sortKeyIndex \in {0, 1}
  /\ tempDir0 = [n \in 0..(MaxFiles - 1) |-> NoFile]

\* ExternalSort keeps running: a read, a spill-file operation or a publish call
\* that was started returns, and the statement after it is executed
SpecLive == InitLive /\ [][Next]_vars /\ WF_vars(Next)

(***************************************************************************)
(* The functions of the package applied on their own: each behaviour picks *)
(* one function and its arguments and makes the one call.                  *)
(***************************************************************************)
\* estimatedRecordSize := uint64(73)
estimatedRecordSize == 73

\* const minChunkSize and const maxChunkSize, scaled to the word width: the
\* quotient availableBytes / estimatedRecordSize reaches values below, between
\* and above them
minChunkSize == 2
maxChunkSize == 4

\* calculateAdaptiveChunkSize without the upper clamp
calculateAdaptiveChunkSize_mut(Sys, Alloc) ==
  LET availableBytes == Uint(Uint(Sys - Alloc) * 6) \div 10
      chunk == ToInt(availableBytes \div estimatedRecordSize)
  IN IF chunk < minChunkSize THEN minChunkSize ELSE chunk

\* calculateAdaptiveChunkSize for the values m.Sys and m.Alloc that
\* runtime.ReadMemStats delivered
calculateAdaptiveChunkSize(Sys, Alloc) ==
  LET availableBytes == Uint(Uint(Sys - Alloc) * 6) \div 10
      chunk == ToInt(availableBytes \div estimatedRecordSize)
  IN IF chunk < minChunkSize THEN minChunkSize
     ELSE IF chunk > maxChunkSize THEN maxChunkSize
     ELSE chunk

\* number of values per field of MemStats that are tried
MemSamples == 16

\* values of m.Sys and m.Alloc: spread over the whole word, and the largest word
MemValues ==
  {(k * WordModulus) \div MemSamples : k \in 0..(MemSamples - 1)} \cup {WordModulus - 1}

MemStats == [Sys : MemValues, Alloc : MemValues]

\* records to compare, each with the number its id denotes and with the place
\* of its name and of its continent in unsigned byte order without case
\* folding: "" < "Alpha" < "alp" < "alpha" < "alphabet" < <<200>> and
\* "" < "Eu" < "Eur" < "E",<<200>> < "eu"
CompareRecords ==
  { \* "-3,Alpha,x,Eu"
    [rec |-> <<45, 51, 44, 65, 108, 112, 104, 97, 44, 120, 44, 69, 117>>,
     id |-> -3, name |-> 1, continent |-> 1],
    \* "0,alp,x,"
    [rec |-> <<48, 44, 97, 108, 112, 44, 120, 44>>,
     id |-> 0, name |-> 2, continent |-> 0],
    \* "5,alpha,x,eu"
    [rec |-> <<53, 44, 97, 108, 112, 104, 97, 44, 120, 44, 101, 117>>,
     id |-> 5, name |-> 3, continent |-> 4],
    \* "42,alphabet,x,Eur"
    [rec |-> <<52, 50, 44, 97, 108, 112, 104, 97, 98, 101, 116, 44, 120, 44, 69, 117, 114>>,
     id |-> 42, name |-> 4, continent |-> 2],
    \* "5,,x,Eu"
    [rec |-> <<53, 44, 44, 120, 44, 69, 117>>,
     id |-> 5, name |-> 0, continent |-> 1],
    \* "7,",<<200>>,",x,E",<<200>>
    [rec |-> <<55, 44, 200, 44, 120, 44, 69, 200>>,
     id |-> 7, name |-> 5, continent |-> 3] }

CompareCases == [a : CompareRecords, b : CompareRecords, idx : {0, 1, 3}]

\* width of an id (int32 in the generator), half the machine word
IdBits == WordBits \div 2

IdRange == (0 - Pow2(IdBits - 1))..(Pow2(IdBits - 1) - 1)

\* the decimal digits of a natural number
RECURSIVE Digits(_)
Digits(n) ==
  IF n < 10 THEN <<DIGIT0 + n>> ELSE Digits(n \div 10) \o <<DIGIT0 + (n % 10)>>

\* the well-formed decimal text of an integer
DecimalText(v) == IF v < 0 THEN <<MINUS>> \o Digits(0 - v) ELSE Digits(v)

\* what follows the id in the buffer: nothing, or ",a"
IdTails == {<<>>, <<COMMA, 97>>}

\* buffers whose id field is not a well-formed decimal, with the value that
\* "stop at the first unexpected byte" gives
MalformedIds ==
  { [rec |-> <<49, 50, 97, 51, 44, 110>>, specified |-> TRUE, value |-> 12],   \* "12a3,n"
    [rec |-> <<49, 45, 50>>, specified |-> TRUE, value |-> 1],                 \* "1-2"
    [rec |-> <<45, 45, 53>>, specified |-> TRUE, value |-> 0],                 \* "--5"
    [rec |-> <<45>>, specified |-> TRUE, value |-> 0],                         \* "-"
    [rec |-> <<>>, specified |-> TRUE, value |-> 0],                           \* ""
    [rec |-> <<43, 53>>, specified |-> TRUE, value |-> 0],                     \* "+5"
    [rec |-> <<45, 52, 120, 44, 110>>, specified |-> TRUE, value |-> -4],      \* "-4x,n"
    [rec |-> <<48, 48, 55>>, specified |-> TRUE, value |-> 7],                 \* "007"
    [rec |-> <<44, 53>>, specified |-> TRUE, value |-> 0],                     \* ",5"
    [rec |-> <<51, 46, 57>>, specified |-> TRUE, value |-> 3],                 \* "3.9"
    [rec |-> <<32, 53>>, specified |-> TRUE, value |-> 0] }                    \* " 5"

\* digit strings too long for the accumulator: the accumulation wraps
LongIds ==
  { [rec |-> <<57, 57, 57, 57, 57>>, specified |-> FALSE, value |-> 0],        \* "99999"
    [rec |-> <<45, 57, 57, 57, 57, 57, 44, 97>>, specified |-> FALSE, value |-> 0] }

IdCases ==
  {[rec |-> DecimalText(v) \o tail, specified |-> TRUE, value |-> v] :
     v \in IdRange, tail \in IdTails}
    \cup MalformedIds \cup LongIds

\* longest buffer handed to extractKeyString on its own
MaxKeyBuf == 4

\* buffers of commas and the letters 'a', 'b', with the selector
KeyCases == [rec : SeqsUpTo({COMMA, 97, 98}, MaxKeyBuf), idx : {0, 1, 3}]

\* longest record and longest chunk of the round trips through a spill file
MaxTripRecLen == 2
MaxTripRecs == 2

\* chunks of records over newline, comma and 'a' (the empty record included);
\* `terminated` tells whether the file ends with the newline writeChunk puts
\* after the last record or was cut right before it
TripCases ==
  [recs : SeqsUpTo(SeqsUpTo({NEWLINE, COMMA, 97}, MaxTripRecLen), MaxTripRecs),
   terminated : BOOLEAN]

\* the file of a round trip
TripFile(c) ==
  LET bytes == ChunkBytes([k \in 1..Len(c.recs) |-> [data |-> c.recs[k]]])
  IN IF c.terminated \/ Len(bytes) = 0 THEN bytes ELSE SubSeq(bytes, 1, Len(bytes) - 1)

\* no run of ExternalSort is going on
NoRun ==
  /\ input = <<>>
  /\ sortKeyIndex = 0
  /\ pc = "pure"
  /\ result = Nil
  /\ tempDirCreated = FALSE
  /\ chunkSize = 0
  /\ readPos = 0
  /\ readsIssued = 0
  /\ lastReadErr = Nil
  /\ records = <<>>
  /\ totalRecordsRead = 0
  /\ deadline = "none"
  /\ tempFiles = <<>>
  /\ spilled = <<>>
  /\ tempDir0 = [n \in 0..(MaxFiles - 1) |-> NoFile]
  /\ fs = tempDir0
  /\ removeCalls = {}
  /\ mergeCalls = 0
  /\ scanners = <<>>
  /\ mi = 0
  /\ h = <<>>
  /\ item = NoItem
  /\ batch = <<>>
  /\ mergedCount = 0
  /\ publishCalls = <<>>
  /\ cursorErrs = {}

runVars == <<input, sortKeyIndex, pc, result, tempDirCreated, chunkSize, ioVars, spillVars,
             mergeVars, tempDir0, removeCalls>>

InitPure ==
  /\ NoRun
  /\ NoCommand
  /\ NoProducer
  /\ pureOut = <<>>
  /\ \/ pureFn = "calculateAdaptiveChunkSize" /\ pureIn \in MemStats
     \/ pureFn = "Less" /\ pureIn \in CompareCases
     \/ pureFn = "extractID" /\ pureIn \in IdCases
     \/ pureFn = "extractKeyString" /\ pureIn \in KeyCases
     \/ pureFn = "writeChunk/next" /\ pureIn \in TripCases

CallCalculateAdaptiveChunkSize ==
  /\ pureFn = "calculateAdaptiveChunkSize"
  /\ pureOut = <<>>
  /\ pureOut' = <<calculateAdaptiveChunkSize(pureIn.Sys, pureIn.Alloc)>>
  /\ UNCHANGED <<runVars, cmdVars, producer, pureFn, pureIn>>

\* records a and b keyed under selector idx and compared by the less function
\* of the chunk sort and by minHeap.Less
CallLess ==
  /\ pureFn = "Less"
  /\ pureOut = <<>>
  /\ LET a == pureIn.a.rec
         b == pureIn.b.rec
         idx == pureIn.idx
     IN pureOut' =
          <<[chunk |-> ChunkLess(KeyedRecord(a, idx), KeyedRecord(b, idx), idx),
             heap |-> Less(<<HeapItem(a, 0, idx), HeapItem(b, 1, idx)>>, 0, 1)]>>
  /\ UNCHANGED <<runVars, cmdVars, producer, pureFn, pureIn>>

CallExtractID ==
  /\ pureFn = "extractID"
  /\ pureOut = <<>>
  /\ pureOut' = <<extractID(pureIn.rec)>>
  /\ UNCHANGED <<runVars, cmdVars, producer, pureFn, pureIn>>

\* extractKeyString(rec, idx): the key, and rec as the call leaves it (the
\* function only reads rec; string(...) copies the bytes of the range)
CallExtractKeyString ==
  /\ pureFn = "extractKeyString"
  /\ pureOut = <<>>
  /\ pureOut' = <<[key |-> extractKeyString(pureIn.rec, pureIn.idx), rec |-> pureIn.rec]>>
  /\ UNCHANGED <<runVars, cmdVars, producer, pureFn, pureIn>>

\* writeChunk(path, records), newFileScanner(path), then next() until it fails
CallWriteChunkThenNext ==
  /\ pureFn = "writeChunk/next"
  /\ pureOut = <<>>
  /\ pureOut' = <<Drain(TripFile(pureIn), 0)>>
  /\ UNCHANGED <<runVars, cmdVars, producer, pureFn, pureIn>>

NextPure ==
  \/ CallCalculateAdaptiveChunkSize
  \/ CallLess
  \/ CallExtractID
  \/ CallExtractKeyString
  \/ CallWriteChunkThenNext

SpecPure == InitPure /\ [][NextPure]_vars

(***************************************************************************)
(* cmd/sorter: sorter commands running side by side                        *)
(***************************************************************************)
\* most chunk files one sorter spills
MaxSorterFiles == 1

\* byte strings: "sorter", "id", "ID", "name", "Name", "continent", "age"
StrSorter == <<115, 111, 114, 116, 101, 114>>
StrId == <<105, 100>>
StrIdUpper == <<73, 68>>
StrName == <<110, 97, 109, 101>>
StrNameMixed == <<78, 97, 109, 101>>
StrContinent == <<99, 111, 110, 116, 105, 110, 101, 110, 116>>
StrAge == <<97, 103, 101>>

\* "extsort_", "chunk_", ".tmp", "tmp"
StrExtsort == <<101, 120, 116, 115, 111, 114, 116, 95>>
StrChunk == <<99, 104, 117, 110, 107, 95>>
StrDotTmp == <<46, 116, 109, 112>>
StrTmp == <<116, 109, 112>>

\* os.Args of a sorter: the program name, then the arguments
ArgLists ==
  {<<StrSorter>>, <<StrSorter, StrId>>, <<StrSorter, StrIdUpper>>, <<StrSorter, StrName>>,
   <<StrSorter, StrNameMixed>>, <<StrSorter, StrContinent>>, <<StrSorter, StrAge>>,
   <<StrSorter, StrId, StrAge>>}

\* os.TempDir() as a list of path components: /tmp, or a TMPDIR that is
\* another sorter's directory /tmp/extsort_id
TempBases == {<<StrTmp>>, <<StrTmp, StrExtsort \o StrId>>}

\* strings.ToLower on ASCII text
ToLower(s) == [i \in 1..Len(s) |-> IF s[i] >= 65 /\ s[i] <= 90 THEN s[i] + 32 ELSE s[i]]

\* map[string]int{"id": 0, "name": 1, "continent": 3}[key]: a missing key gives 0
SortIdx(key) ==
  IF key = StrId THEN 0
  ELSE IF key = StrName THEN 1
  ELSE IF key = StrContinent THEN 3
  ELSE 0

\* a command that takes whatever the lookup gives
ValidKey_mut(key, sortIdx) == TRUE

\* the negation of `sortIdx == 0 && key != "id"`
ValidKey(key, sortIdx) == ~(sortIdx = 0 /\ key # StrId)

\* one directory extsort for every selector
TempDirOf_mut(base, key) == Append(base, StrExtsort)

\* filepath.Join(os.TempDir(), "extsort_"+key)
TempDirOf(base, key) == Append(base, StrExtsort \o key)

\* filepath.Join(tempDir, fmt.Sprintf("chunk_%d.tmp", len(tempFiles)))
ChunkFile(dir, files) == Append(dir, StrChunk \o <<DIGIT0 + Len(files)>> \o StrDotTmp)

InitMain ==
  /\ NoRun
  /\ pureFn = "none"
  /\ pureIn = <<>>
  /\ pureOut = <<>>
  /\ NoProducer
  /\ sorters \in [Sorters -> {NewSorter(a, b) : a \in ArgLists, b \in TempBases}]
  /\ fileOps = {}

\* process p moves to state s and performs the file operations ops
Step(p, s, ops) ==
  /\ sorters' = [sorters EXCEPT ![p] = s]
  /\ fileOps' = fileOps \cup {[proc |-> p, op |-> o[1], path |-> o[2]] : o \in ops}
  /\ UNCHANGED <<runVars, pureVars, producer>>

\* os.Exit(code)
Exit(s, code) == [s EXCEPT !.pc = "exited", !.exit = code]

\* main: no argument, usage and os.Exit(1)
MainUsage(p) ==
  LET s == sorters[p]
  IN /\ s.pc = "main"
     /\ Len(s.args) < 2
     /\ Step(p, Exit(s, 1), {})

\* main: the argument is lowercased and looked up; an unknown key exits 1
MainInvalidKey(p) ==
  LET s == sorters[p]
  IN /\ s.pc = "main"
     /\ Len(s.args) >= 2
     /\ LET key == ToLower(s.args[2])
        IN /\ ~ValidKey(key, SortIdx(key))
           /\ Step(p, Exit([s EXCEPT !.key = key, !.sortIdx = SortIdx(key)], 1), {})

\* main: the argument is lowercased and looked up; a known key goes on
MainKey(p) ==
  LET s == sorters[p]
  IN /\ s.pc = "main"
     /\ Len(s.args) >= 2
     /\ LET key == ToLower(s.args[2])
        IN /\ ValidKey(key, SortIdx(key))
           /\ Step(p, [s EXCEPT !.key = key, !.sortIdx = SortIdx(key), !.pc = "clients"], {})

\* main: NewReader, NewWriter, the temp directory name, then ExternalSort is called
MainClients(p) ==
  LET s == sorters[p]
  IN /\ s.pc = "clients"
     /\ Step(p, [s EXCEPT !.clients = TRUE, !.tempDir = TempDirOf(s.base, s.key),
                          !.pc = "sort_mkdir"], {})

\* ExternalSort: os.MkdirAll(tempDir)
SorterMkdir(p) ==
  LET s == sorters[p]
  IN /\ s.pc = "sort_mkdir"
     /\ Step(p, [s EXCEPT !.pc = "sort_chunk"], {<<"mkdir", s.tempDir>>})

\* ExternalSort: a chunk is written to the next chunk file (os.Create truncates)
SorterSpill(p) ==
  LET s == sorters[p]
      fpath == ChunkFile(s.tempDir, s.files)
  IN /\ s.pc = "sort_chunk"
     /\ Len(s.files) < MaxSorterFiles
     /\ Step(p, [s EXCEPT !.files = Append(s.files, fpath)], {<<"create", fpath>>})

\* ExternalSort: the chunking phase ends; without a file it returns nil
SorterChunksDone(p) ==
  LET s == sorters[p]
  IN /\ s.pc = "sort_chunk"
     /\ Step(p, [s EXCEPT !.pc = IF s.files = <<>> THEN "returned" ELSE "sort_open"], {})

\* kWayMergeToKafka: the next chunk file is opened and read; after the last
\* one the merge runs to its end
SorterOpen(p) ==
  LET s == sorters[p]
  IN /\ s.pc = "sort_open"
     /\ s.opened < Len(s.files)
     /\ Step(p, [s EXCEPT !.opened = s.opened + 1,
                          !.pc = IF s.opened + 1 = Len(s.files) THEN "sort_remove"
                                 ELSE "sort_open"],
             {<<"read", s.files[s.opened + 1]>>})

\* ExternalSort: os.Remove of the next chunk file; after the last one it returns nil
SorterRemove(p) ==
  LET s == sorters[p]
  IN /\ s.pc = "sort_remove"
     /\ s.removed < Len(s.files)
     /\ Step(p, [s EXCEPT !.removed = s.removed + 1,
                          !.pc = IF s.removed + 1 = Len(s.files) THEN "returned"
                                 ELSE "sort_remove"],
             {<<"remove", s.files[s.removed + 1]>>})

\* ExternalSort returns an error: MkdirAll, a read, a spill, an open or a
\* publish failed
SorterFails(p) ==
  LET s == sorters[p]
  IN /\ s.pc \in {"sort_mkdir", "sort_chunk", "sort_open"}
     /\ Step(p, [s EXCEPT !.pc = "returned", !.failed = TRUE], {})

\* main: os.Exit(1) when ExternalSort returned an error, else main returns
MainExit(p) ==
  LET s == sorters[p]
  IN /\ s.pc = "returned"
     /\ Step(p, Exit(s, IF s.failed THEN 1 ELSE 0), {})

NextMain ==
  \/ \E p \in Sorters : MainUsage(p)
  \/ \E p \in Sorters : MainInvalidKey(p)
  \/ \E p \in Sorters : MainKey(p)
  \/ \E p \in Sorters : MainClients(p)
  \/ \E p \in Sorters : SorterMkdir(p)
  \/ \E p \in Sorters : SorterSpill(p)
  \/ \E p \in Sorters : SorterChunksDone(p)
  \/ \E p \in Sorters : SorterOpen(p)
  \/ \E p \in Sorters : SorterRemove(p)
  \/ \E p \in Sorters : SorterFails(p)
  \/ \E p \in Sorters : MainExit(p)

SpecMain == InitMain /\ [][NextMain]_vars

(***************************************************************************)
(* kWayMergeToKafka called on a directory of sorted files                  *)
(***************************************************************************)
\* most files handed to one merge
MaxMergeFiles == 2

\* the records of the files handed to a merge: they differ in every field
MergePool == {RecNeg3a, Rec5b}

\* what a chunk file can hold when the merge starts: nothing (a file that is
\* empty on disk), or up to MaxChunkSize records in the order of selector idx
SortedFiles(idx) ==
  UNION {{ChunkBytes(sorted) :
            sorted \in SortSlice([k \in 1..Len(s) |-> KeyedRecord(s[k], idx)], idx)} :
         s \in SeqsUpTo(MergePool, MaxChunkSize)}

\* ExternalSort is at line 180 with k chunk files, about to call kWayMergeToKafka
InitMerge ==
  /\ input = <<>>
  /\ sortKeyIndex \in {0, 1, 3}
  /\ pc = "phase1_end"
  /\ result = Nil
  /\ tempDirCreated = TRUE
  /\ chunkSize = MaxChunkSize
  /\ readPos = 0
  /\ readsIssued = 0
  /\ lastReadErr = Nil
  /\ records = <<>>
  /\ totalRecordsRead = 0
  /\ deadline = "none"
  /\ spilled = <<>>
  /\ \E k \in 1..MaxMergeFiles :
       /\ tempFiles = [j \in 1..k |-> j - 1]
       /\ \E content \in [0..(k - 1) -> SortedFiles(sortKeyIndex)] :
            fs = [n \in 0..(MaxFiles - 1) |->
                    IF n < k THEN [exists |-> TRUE, bytes |-> content[n]] ELSE NoFile]
  /\ tempDir0 = fs
  /\ removeCalls = {}
  /\ mergeCalls = 0
  /\ scanners = <<>>
  /\ mi = 0
  /\ h = <<>>
  /\ item = NoItem
  /\ batch = <<>>
  /\ mergedCount = 0
  /\ publishCalls = <<>>
  /\ cursorErrs = {}
  /\ NoCommand
  /\ NoProducer
  /\ pureFn = "none"
  /\ pureIn = <<>>
  /\ pureOut = <<>>

\* the steps of one call of kWayMergeToKafka, up to its return
NextMerge ==
  \/ StartMerge
  \/ OpenScanner
  \/ OpenScannerFails
  \/ InitPull
  \/ MergePop
  \/ FlushFull
  \/ FlushFullFails
  \/ AdvanceCursor
  \/ FinalFlushEmpty
  \/ FinalFlush
  \/ FinalFlushFails

SpecMerge == InitMerge /\ [][NextMerge]_vars

(***************************************************************************)
(* cmd/producer: enqueuer, generator workers and the publishing main       *)
(***************************************************************************)
\* const totalRecords = 50_000_000, scaled
totalRecords == 3

\* const queueSize = 100_000, scaled: the capacity of both channels
queueSize == 2

\* the capacity of the publish batch, make([]gokafka.Message, 0, 1000), scaled
producerBatchCap == 2

\* most generator workers (numWorkers := runtime.NumCPU() * 3)
MaxWorkers == 2

\* main up to the start of its publish loop: both channels empty, numWorkers
\* workers started and counted in wg, the enqueuer started
NewProducer(numWorkers) ==
  [jobs |-> 0, jobsClosed |-> FALSE, i |-> 0,
   records |-> 0, recordsClosed |-> FALSE,
   worker |-> [w \in 1..numWorkers |-> "range"],
   generated |-> 0, delivered |-> 0, wg |-> numWorkers,
   at |-> "collect", sent |-> 0, batch |-> 0, calls |-> <<>>,
   writerClosed |-> 0, completed |-> FALSE, panicked |-> FALSE]

InitProducer ==
  /\ NoRun
  /\ NoCommand
  /\ pureFn = "none"
  /\ pureIn = <<>>
  /\ pureOut = <<>>
  /\ \E n \in 1..MaxWorkers : producer = NewProducer(n)

\* the producer moves to state p
Goes(p) ==
  /\ producer' = p
  /\ UNCHANGED <<runVars, pureVars, cmdVars>>

\* an enqueuer that sends one job too many
MoreJobs_mut(i) == i <= totalRecords

\* `i < totalRecords` of the enqueuer's loop
MoreJobs(i) == i < totalRecords

\* enqueuer: jobs <- struct{}{} (blocks while the channel is full)
Enqueue ==
  /\ MoreJobs(producer.i)
  /\ ~producer.jobsClosed
  /\ producer.jobs < queueSize
  /\ Goes([producer EXCEPT !.jobs = @ + 1, !.i = @ + 1])

\* enqueuer: close(jobs) after its loop
CloseJobs ==
  /\ ~MoreJobs(producer.i)
  /\ ~producer.jobsClosed
  /\ Goes([producer EXCEPT !.jobsClosed = TRUE])

\* worker w: `for range jobs` receives a job and generates a record
WorkerTake(w) ==
  /\ producer.worker[w] = "range"
  /\ producer.jobs > 0
  /\ Goes([producer EXCEPT !.jobs = @ - 1, !.generated = @ + 1, !.worker[w] = "send"])

\* worker w: records <- rec (blocks while the channel is full, panics when
\* the channel is closed)
WorkerSend(w) ==
  /\ producer.worker[w] = "send"
  /\ IF producer.recordsClosed
     THEN Goes([producer EXCEPT !.panicked = TRUE, !.worker[w] = "done"])
     ELSE /\ producer.records < queueSize
          /\ Goes([producer EXCEPT !.records = @ + 1, !.delivered = @ + 1,
                                   !.worker[w] = "range"])

\* a worker that returns without wg.Done()
WorkerExit_mut(w) ==
  /\ producer.worker[w] = "range"
  /\ producer.jobs = 0
  /\ producer.jobsClosed
  /\ Goes([producer EXCEPT !.worker[w] = "done"])

\* worker w: jobs is closed and empty, the range loop ends, deferred wg.Done()
WorkerExit(w) ==
  /\ producer.worker[w] = "range"
  /\ producer.jobs = 0
  /\ producer.jobsClosed
  /\ Goes([producer EXCEPT !.worker[w] = "done", !.wg = @ - 1])

\* `len(batch) < cap(batch) && sent < totalRecords` of the inner loop
BatchOpen(p) == p.batch < producerBatchCap /\ p.sent < totalRecords

\* main: msg := <-records, append, sent++ (blocks while the channel is empty)
Collect ==
  /\ producer.at = "collect"
  /\ BatchOpen(producer)
  /\ producer.records > 0
  /\ Goes([producer EXCEPT !.records = @ - 1, !.batch = @ + 1, !.sent = @ + 1])

\* a publisher that gives up at the first failed call
WriteBatch_mut ==
  /\ producer.at = "collect"
  /\ ~BatchOpen(producer)
  /\ \E failed \in BOOLEAN :
       Goes([producer EXCEPT
               !.calls = Append(@, [n |-> producer.batch, failed |-> failed]),
               !.batch = IF producer.sent < totalRecords THEN 0 ELSE @,
               !.at = IF failed THEN "exit"
                      ELSE IF producer.sent < totalRecords THEN "collect"
                      ELSE "close_records"])

\* main: writer.WriteMessages(ctx, batch...), its error only printed; then the
\* outer loop goes round (batch = batch[:0]) or ends
WriteBatch ==
  /\ producer.at = "collect"
  /\ ~BatchOpen(producer)
  /\ \E failed \in BOOLEAN :
       Goes([producer EXCEPT
               !.calls = Append(@, [n |-> producer.batch, failed |-> failed]),
               !.batch = IF producer.sent < totalRecords THEN 0 ELSE @,
               !.at = IF producer.sent < totalRecords THEN "collect" ELSE "close_records"])

\* main: close(records)
CloseRecords ==
  /\ producer.at = "close_records"
  /\ Goes([producer EXCEPT !.recordsClosed = TRUE, !.at = "wait"])

\* main: wg.Wait() returns
WaitWorkers ==
  /\ producer.at = "wait"
  /\ producer.wg = 0
  /\ Goes([producer EXCEPT !.at = "close_writer"])

\* main: writer.Close(), its error only printed, then the summary
\* "Producer completed successfully"
CloseWriter ==
  /\ producer.at = "close_writer"
  /\ Goes([producer EXCEPT !.writerClosed = @ + 1, !.completed = TRUE, !.at = "exit"])

NextProducer ==
  \/ Enqueue
  \/ CloseJobs
  \/ \E w \in DOMAIN producer.worker : WorkerTake(w)
  \/ \E w \in DOMAIN producer.worker : WorkerSend(w)
  \/ \E w \in DOMAIN producer.worker : WorkerExit(w)
  \/ Collect
  \/ WriteBatch
  \/ CloseRecords
  \/ WaitWorkers
  \/ CloseWriter

\* every goroutine that can run is run in the end
SpecProducer == InitProducer /\ [][NextProducer]_vars /\ WF_vars(NextProducer)

(***************************************************************************)
(* Properties                                                              *)
(***************************************************************************)
RECURSIVE Flatten(_)
Flatten(calls) ==
  IF Len(calls) = 0 THEN <<>> ELSE calls[1].batch \o Flatten(Tail(calls))

\* the records handed to WriteMessages, over all calls in call order
Handed == Flatten(publishCalls)

\* the records of the WriteMessages calls that succeeded
Published == Flatten(SelectSeq(publishCalls, LAMBDA c : c.err = Nil))

\* the multiset of the elements of a sequence
BagOf(s) ==
  [x \in {s[i] : i \in 1..Len(s)} |-> Cardinality({i \in 1..Len(s) : s[i] = x})]

\* key(a) <= key(b) under selector idx
KeyLeq(a, b, idx) ==
  IF idx = 0 THEN extractID(a) <= extractID(b)
  ELSE ~StringLess(extractKeyString(b, idx), extractKeyString(a, idx))

\* the read errors that say "deadline passed" or "timeout"
DrainSignals == {ErrDeadlineExceeded, ErrReadIOTimeout}

\* ExternalSort has returned nil
Succeeded == pc = "done" /\ result = Nil

\* C1: for every selector and input, the records handed to the output endpoint,
\* over all publish calls in call order, are non-decreasing in the selected key.
C1_OutputSorted ==
  \A i \in 1..(Len(Handed) - 1) : KeyLeq(Handed[i], Handed[i + 1], sortKeyIndex)

\* C1 witness: a successful run over an input that was not in key order, spilled
\* to three files and published in several calls
C1_Witness ==
  /\ Succeeded
  /\ Len(tempFiles) = 3
  /\ Len(publishCalls) >= 2
  /\ Len(Handed) = Len(input)
  /\ \E i \in 1..(Len(input) - 1) : ~KeyLeq(input[i], input[i + 1], sortKeyIndex)

\* C2: after a successful run the multiset of published records equals the
\* multiset of records held by the input endpoint.
C2_MultisetPreserved ==
  Succeeded => BagOf(Published) = BagOf(input)

\* C3: after a successful run mergedCount equals totalRecordsRead and equals the
\* number of records passed to WriteMessages.
C3_CountPreserved ==
  Succeeded => /\ mergedCount = totalRecordsRead
               /\ Len(Handed) = totalRecordsRead

\* C4 as stated: the chunking phase ends only at an ingest attempt that yields
\* zero records (a partial chunk is followed by another attempt).
C4_EndsOnlyAtEmptyAttempt ==
  pc = "phase1_end" => Len(records) = 0

\* C4 amended: the loop starts another ingest attempt only after a chunk of
\* exactly chunkSize records; the first attempt with fewer records ends the
\* phase (spilled when it has 1..chunkSize-1 records, not spilled when it has
\* none), and after a spilled partial chunk the loop is never entered again.
C4_EndsAtFirstShortChunk ==
  /\ pc = "phase1_end" => Len(records) < chunkSize
  /\ \A k \in 1..Len(spilled) : spilled[k] >= 1
  /\ \A k \in 1..(Len(spilled) - 1) : spilled[k] = chunkSize
  /\ (pc = "phase1_end" /\ Len(records) > 0) =>
       /\ spilled[Len(spilled)] = Len(records)
       /\ fs[tempFiles[Len(tempFiles)]] = [exists |-> TRUE, bytes |-> ChunkBytes(records)]
  /\ (Len(spilled) > 0 /\ spilled[Len(spilled)] < chunkSize) =>
       pc \notin {"chunk_begin", "ingest", "chunk_end"}
  /\ pc \in {"chunk_begin", "ingest"} => \A k \in 1..Len(spilled) : spilled[k] = chunkSize

\* C4 witness: the phase has ended on a spilled partial chunk, with records
\* still unread on the input endpoint
C4_Witness ==
  /\ pc = "phase1_end"
  /\ Len(records) > 0
  /\ Len(records) < chunkSize
  /\ spilled = <<Len(records)>>
  /\ readPos < Len(input)

\* C5: with a sortKeyIndex other than 0, 1, 3 ExternalSort returns an error
\* before any I/O: no temp directory, no read, no spill file, no publish.
C5_InvalidSelectorNoIO ==
  sortKeyIndex \notin {0, 1, 3} =>
    /\ pc \in {"start", "done"}
    /\ pc = "done" => result = ErrInvalidSelector
    /\ ~tempDirCreated
    /\ readsIssued = 0
    /\ tempFiles = <<>>
    /\ fs = tempDir0
    /\ mergeCalls = 0
    /\ publishCalls = <<>>

\* C5 witness: the call with index 2 has returned although the input holds records
C5_Witness ==
  /\ sortKeyIndex = 2
  /\ pc = "done"
  /\ result = ErrInvalidSelector
  /\ Len(input) > 0

\* C6: when the first ingest attempt yields zero records, ExternalSort returns
\* success with zero spill files, no merge and no publish call.
C6_EmptyInputSuccess ==
  (totalRecordsRead = 0 /\ lastReadErr \in DrainSignals /\ pc # "chunk_end") =>
    /\ pc \in {"phase1_end", "done"}
    /\ pc = "done" => result = Nil
    /\ tempFiles = <<>>
    /\ fs = tempDir0
    /\ mergeCalls = 0
    /\ publishCalls = <<>>

\* C6 witness: the run on an endpoint without records has returned nil
C6_Witness ==
  /\ Succeeded
  /\ input = <<>>
  /\ readsIssued = 1
  /\ lastReadErr \in DrainSignals

C8_TimeoutNotAnError ==
  /\ pc = "done" => result \notin DrainSignals
  /\ lastReadErr \in DrainSignals =>
       /\ pc \notin {"chunk_begin", "ingest"}
       /\ BagOf([k \in 1..Len(records) |-> records[k].data])
            = BagOf(SubSeq(input, readPos - Len(records) + 1, readPos))
       /\ (pc = "done" /\ result # Nil) => result.op \in {"create", "write", "open", "publish"}
       /\ (pc \notin {"chunk_end", "done"} /\ Len(records) > 0) =>
            /\ \A k \in 1..(Len(records) - 1) :
                 KeyLeq(records[k].data, records[k + 1].data, sortKeyIndex)
            /\ spilled[Len(spilled)] = Len(records)
            /\ fs[tempFiles[Len(tempFiles)]].bytes = ChunkBytes(records)
       /\ (Succeeded /\ totalRecordsRead > 0) => mergeCalls = 1

\* C8 witness: a chunk cut short by "i/o timeout" after a full chunk was
\* spilled, merged and published by a run that returned nil
C8_Witness ==
  /\ Succeeded
  /\ lastReadErr = ErrReadIOTimeout
  /\ Len(records) = 1
  /\ chunkSize = 2
  /\ Len(spilled) = 2
  /\ Len(Published) = totalRecordsRead

\* C9: a failed WriteMessages call, in the merge loop or at the final flush,
\* is the last publish call and its error is what ExternalSort returns.
C9_PublishErrorStops ==
  \A k \in 1..Len(publishCalls) :
    publishCalls[k].err # Nil =>
      /\ k = Len(publishCalls)
      /\ pc = "done"
      /\ result = publishCalls[k].err

\* C9 witness: the flush of a full batch failed inside the merge loop, with
\* items left in the heap
C9_Witness ==
  /\ pc = "done"
  /\ result = ErrPublish
  /\ publishCalls[Len(publishCalls)].err = ErrPublish
  /\ Len(publishCalls[Len(publishCalls)].batch) = BatchCap
  /\ Len(h) > 0

\* C10: a read failure other than end-of-file on a spill-file cursor aborts the
\* merge and is returned to the caller as an error.
C10_CursorErrorAborts ==
  cursorErrs # {} => (pc = "done" /\ result = ErrSpillRead)

\* ExternalSort has returned an error
Failed == pc = "done" /\ result # Nil

\* C11: after a successful run the temp directory holds no file chunk_<N>.tmp,
\* whatever it held before the run started.
C11_NoChunkFilesAfterSuccess ==
  Succeeded => \A n \in DOMAIN fs : ~fs[n].exists

\* C12: when ExternalSort returns an error after it has created at least one
\* spill file, os.Remove has been called on every spill file it created.
C12_CleanupOnFailure ==
  (Failed /\ Len(tempFiles) >= 1) =>
    \A k \in 1..Len(tempFiles) : tempFiles[k] \in removeCalls

\* the chunking loop (lines 92-165) has been left
ChunkingOver == pc \notin {"start", "mkdir", "chunk_begin", "ingest", "chunk_end"}

\* the merge has done something: it was called, a cursor exists, a batch was handed over
MergeTouched ==
  \/ mergeCalls > 0
  \/ \E k \in 1..Len(scanners) : scanners[k].state # "nil"
  \/ publishCalls # <<>>

\* the final flush of the merge has returned nil
FinalFlushDone ==
  /\ pc \in {"cleanup", "done"}
  /\ mergeCalls = 1
  /\ h = <<>>
  /\ batch = <<>>
  /\ \A k \in 1..Len(publishCalls) : publishCalls[k].err = Nil

\* C13: the phases are strictly sequential. No spill file is opened for reading
\* and no record is published before the last read of the input endpoint and
\* the last spill write have completed, and no spill file is deleted before the
\* final flush of the merge has returned successfully.
C13_PhasesSequential ==
  /\ [](MergeTouched => ChunkingOver)
  /\ [](removeCalls # {} => FinalFlushDone)
  /\ [][/\ MergeTouched' =>
             /\ readsIssued' = readsIssued
             /\ tempFiles' = tempFiles
             /\ spilled' = spilled
             /\ \A n \in DOMAIN fs : fs'[n] # fs[n] => fs'[n] = NoFile
        /\ (removeCalls' # removeCalls \/ \E n \in DOMAIN fs : fs[n].exists /\ ~fs'[n].exists)
             => FinalFlushDone]_vars

\* C13 witness: a run that spilled two files, published in two calls and then
\* removed its files
C13_Witness ==
  /\ Succeeded
  /\ Len(tempFiles) >= 2
  /\ Len(publishCalls) >= 2
  /\ removeCalls = {tempFiles[k] : k \in 1..Len(tempFiles)}

\* C14: the records resident in the chunk never exceed the budget chunkSize,
\* and ReadMessage is called only while the chunk holds fewer than chunkSize
\* records.
C14_ChunkWithinBudget ==
  /\ [](Len(records) <= chunkSize)
  /\ [][readsIssued' # readsIssued => Len(records) < chunkSize]_vars

\* C14 witness: the chunk reached the budget of 2 while the endpoint still
\* holds an unread record, and no further read was issued for it
C14_Witness ==
  /\ pc = "chunk_end"
  /\ chunkSize = 2
  /\ Len(records) = chunkSize
  /\ readPos < Len(input)
  /\ lastReadErr = Nil

\* kWayMergeToKafka is between its heap initialisation and its return
InMergeLoop == pc \in {"heap_init", "merge_loop", "flush_full", "advance"}

\* the scanners that are open
OpenCursors == {k \in 1..Len(scanners) : scanners[k].state = "open"}

\* C15: throughout the merge loop, from the first pop to the final flush, the
\* number of open cursors equals the number of spill files; a cursor that has
\* reached end-of-file stays open until the merge returns.
C15_AllCursorsOpenDuringMerge ==
  InMergeLoop =>
    /\ Len(scanners) = Len(tempFiles)
    /\ Cardinality(OpenCursors) = Len(tempFiles)

\* C15 witness: in the merge loop with items left in the heap, the cursor of a
\* file whose last record was emitted has hit end-of-file and is still open
C15_Witness ==
  /\ pc = "merge_loop"
  /\ Len(tempFiles) >= 2
  /\ Len(h) > 0
  /\ mergedCount >= 1
  /\ cursorErrs = {}
  /\ \E k \in OpenCursors :
       /\ scanners[k].pos = Len(fs[tempFiles[k]].bytes)
       /\ \A j \in 1..Len(h) : h[j].i # k - 1

\* number of records the cursor of scanners[k] has read: the lines before its position
RecordsRead(k) ==
  Cardinality({q \in 1..scanners[k].pos : fs[tempFiles[k]].bytes[q] = NEWLINE})

RECURSIVE TotalRecordsRead(_)
TotalRecordsRead(k) == IF k = 0 THEN 0 ELSE RecordsRead(k) + TotalRecordsRead(k - 1)

\* heap item it is the latest line read by the cursor of its file
IsLatestLineOfItsFile(it) ==
  /\ it.i \in 0..(Len(tempFiles) - 1)
  /\ LET f == fs[tempFiles[it.i + 1]].bytes
         p == scanners[it.i + 1].pos
         from == p - Len(it.val)
     IN /\ from >= 1
        /\ SubSeq(f, from, p) = it.val \o <<NEWLINE>>
        /\ from = 1 \/ f[from - 1] = NEWLINE

\* C16: at every heap operation of the merge the heap holds at most one item
\* per spill file, so its size never exceeds the number of spill files; an item
\* of origin i is in the heap only while file i has a record that was read and
\* not yet emitted.
C16_HeapOneItemPerFile ==
  InMergeLoop =>
    /\ Len(h) <= Len(tempFiles)
    /\ \A a, b \in 1..Len(h) : a # b => h[a].i # h[b].i
    /\ \A a \in 1..Len(h) : IsLatestLineOfItsFile(h[a])
    /\ mergedCount + Len(h) = TotalRecordsRead(Len(scanners))

\* C16 witness: after a pop and the pull that replaced the popped item, the
\* heap again holds one item for each of the two files
C16_Witness ==
  /\ pc = "merge_loop"
  /\ mergedCount >= 1
  /\ Len(tempFiles) = 2
  /\ Len(h) = 2
  /\ cursorErrs = {}

\* the records a cursor yields from position pos of a file up to its first error
RECURSIVE ScanAll(_, _)
ScanAll(file, pos) ==
  LET r == next(ReadBytes(file, pos))
  IN IF r.err # Nil THEN <<>> ELSE <<r.rec>> \o ScanAll(file, pos + r.n)

\* C17: every spill file written by the chunking phase holds at least one
\* record, and its records are in non-decreasing order of the selected key; an
\* ingest attempt that yields no record writes no file.  Stated on the files
\* listed in tempFiles whenever the phase has completed a chunk or has ended.
C17_SpillFilesSortedNonEmpty ==
  /\ pc \in {"chunk_begin", "phase1_end"} =>
       \A k \in 1..Len(tempFiles) :
         LET rs == ScanAll(fs[tempFiles[k]].bytes, 0)
         IN /\ fs[tempFiles[k]].exists
            /\ Len(rs) >= 1
            /\ Len(rs) = spilled[k]
            /\ \A i \in 1..(Len(rs) - 1) : KeyLeq(rs[i], rs[i + 1], sortKeyIndex)
  /\ (pc = "phase1_end" /\ Len(records) = 0) =>
       /\ Len(spilled) = Len(tempFiles)
       /\ \A n \in DOMAIN fs : n >= Len(tempFiles) => fs[n] = tempDir0[n]

\* C17 witness: two spill files, the first with two records that arrived out
\* of key order, the directory having held other files before
C17_Witness ==
  /\ pc = "phase1_end"
  /\ Len(tempFiles) = 2
  /\ spilled = <<2, 1>>
  /\ ~KeyLeq(input[1], input[2], sortKeyIndex)
  /\ tempDir0[0].exists

\* the call of function fn has returned
Returned(fn) == pureFn = fn /\ pureOut # <<>>

C19_SameComparator ==
  Returned("Less") =>
    LET a == pureIn.a
        b == pureIn.b
        expected == CASE pureIn.idx = 0 -> a.id < b.id
                      [] pureIn.idx = 1 -> a.name < b.name
                      [] OTHER -> a.continent < b.continent
    IN /\ pureOut[1].chunk = expected
       /\ pureOut[1].heap = expected

\* C19 witness: "Alpha" was compared with "alp" under the Name selector and
\* both comparators put it first
C19_Witness ==
  /\ Returned("Less")
  /\ pureIn.idx = 1
  /\ pureIn.a.name = 1
  /\ pureIn.b.name = 2
  /\ pureOut = <<[chunk |-> TRUE, heap |-> TRUE]>>

\* C20: extractID scans from offset 0 up to the first ',' (the whole buffer
\* when there is none), takes '-' only at offset 0, accumulates decimal digits
\* and stops at the first other byte with the value accumulated so far, negated
\* after a leading '-'; for every well-formed decimal integer of the id range
\* it returns exactly that integer, the accumulator never wrapping for such ids.
C20_ExtractIDExact ==
  (Returned("extractID") /\ pureIn.specified) => pureOut[1] = pureIn.value

\* C20 witness: the smallest id of the range, followed by another field, was
\* parsed to itself
C20_Witness ==
  /\ Returned("extractID")
  /\ pureIn.specified
  /\ pureIn.value = 0 - Pow2(IdBits - 1)
  /\ Len(pureIn.rec) > Len(DecimalText(pureIn.value))
  /\ pureOut = <<pureIn.value>>

\* the positions (1-based) of the commas of a buffer
Commas(rec) == {i \in 1..Len(rec) : rec[i] = COMMA}

\* the smallest and the largest element of a non-empty set of numbers
MinOf(S) == CHOOSE x \in S : \A y \in S : x <= y
MaxOf(S) == CHOOSE x \in S : \A y \in S : x >= y

\* C21: for selector Name (index 1) extractKeyString returns the bytes strictly
\* between the first and the second ',' of the record, or from after the first
\* ',' to the end when there is exactly one ','; for selector Continent (index
\* 3) the bytes after the last ',' or the whole record when it has no ','; the
\* record bytes are left unchanged.
C21_KeyStringRanges ==
  Returned("extractKeyString") =>
    LET rec == pureIn.rec
        cs == Commas(rec)
        key == pureOut[1].key
    IN /\ pureOut[1].rec = rec
       /\ (pureIn.idx = 1 /\ Cardinality(cs) >= 2) =>
            LET first == MinOf(cs)
                second == MinOf(cs \ {first})
            IN key = [k \in 1..(second - first - 1) |-> rec[first + k]]
       /\ (pureIn.idx = 1 /\ Cardinality(cs) = 1) =>
            key = [k \in 1..(Len(rec) - MinOf(cs)) |-> rec[MinOf(cs) + k]]
       /\ (pureIn.idx = 3 /\ cs # {}) =>
            key = [k \in 1..(Len(rec) - MaxOf(cs)) |-> rec[MaxOf(cs) + k]]
       /\ (pureIn.idx = 3 /\ cs = {}) => key = rec

\* C21 witness: the Name of a buffer with three commas, the name being the
\* non-empty run between the first two
C21_Witness ==
  /\ Returned("extractKeyString")
  /\ pureIn.idx = 1
  /\ pureIn.rec = <<COMMA, 97, COMMA, COMMA>>
  /\ pureOut[1].key = <<97>>

\* no record of the sequence holds a newline byte
NewlineFree(recs) ==
  \A k \in 1..Len(recs) : \A q \in 1..Len(recs[k]) : recs[k][q] # NEWLINE

\* C22: chunk-store round trip.  For every sequence of records none of which
\* holds a '\n' byte, writeChunk followed by next() until it fails yields the
\* same records in the same order, empty records included, and then io.EOF; a
\* final record that is not terminated by '\n' is returned as well.
C22_ChunkStoreRoundTrip ==
  (/\ Returned("writeChunk/next")
   /\ NewlineFree(pureIn.recs)
   /\ pureIn.terminated \/ (Len(pureIn.recs) > 0 /\ pureIn.recs[Len(pureIn.recs)] # <<>>))
    => /\ pureOut[1].recs = pureIn.recs
       /\ pureOut[1].err = EOF

\* C22 witness: an empty record followed by a record without its newline came
\* back as written
C22_Witness ==
  /\ Returned("writeChunk/next")
  /\ pureIn = [recs |-> << <<>>, <<97, COMMA>> >>, terminated |-> FALSE]
  /\ pureOut[1] = [recs |-> pureIn.recs, err |-> EOF]

\* the chunking phase has ended without a spill failure after reading every
\* record of a non-empty input: the only failed read came when nothing was
\* left to deliver
ChunkedWholeInput ==
  /\ ChunkingOver
  /\ Len(input) > 0
  /\ readPos = Len(input)
  /\ lastReadErr \in DrainSignals
  /\ pc = "done" => result.op \in {"nil", "open", "publish"}

\* C23: with budget B = chunkSize and n > 0 input records, all delivered before
\* any read times out, the chunking phase produces exactly k = ceil(n/B) spill
\* files chunk_0.tmp .. chunk_(k-1).tmp in creation order, every file but the
\* last with B records and the last with n - (k-1)*B; the merge, when no
\* spill-file or publish operation fails, then emits all n records in sorted
\* order.
C23_ChunkCountAndSizes ==
  ChunkedWholeInput =>
    LET n == Len(input)
        B == chunkSize
        k == (n + B - 1) \div B
    IN /\ tempFiles = [j \in 1..k |-> j - 1]
       /\ spilled = [j \in 1..k |-> IF j < k THEN B ELSE n - (k - 1) * B]
       /\ pc = "phase1_end" =>
            \A j \in 1..k : Len(ScanAll(fs[tempFiles[j]].bytes, 0)) = spilled[j]
       /\ (Succeeded /\ cursorErrs = {}) =>
            /\ Len(Handed) = n
            /\ BagOf(Handed) = BagOf(input)
            /\ Published = Handed
            /\ \A i \in 1..(n - 1) : KeyLeq(Handed[i], Handed[i + 1], sortKeyIndex)

\* C23 witness: three records under budget 2 gave the files of 2 and 1 records
\* and were all published by a run that returned nil
C23_Witness ==
  /\ Succeeded
  /\ ChunkedWholeInput
  /\ cursorErrs = {}
  /\ chunkSize = 2
  /\ spilled = <<2, 1>>
  /\ tempFiles = <<0, 1>>
  /\ Len(Handed) = 3

\* the records popped so far that no failed call holds: published, then buffered
Emitted == Published \o batch

\* C24: during the merge every publish call carries between 1 and BatchCap
\* records (1000 in the program): the batch is flushed as soon as it holds
\* BatchCap records and emptied after a successful flush, the remainder is
\* flushed once after the heap empties, no call is made with an empty batch,
\* and on a successful merge every popped record is in exactly one call, in
\* pop order.
C24_PublishBatches ==
  /\ [](\A k \in 1..Len(publishCalls) :
          /\ Len(publishCalls[k].batch) >= 1
          /\ Len(publishCalls[k].batch) <= BatchCap
          /\ k < Len(publishCalls) => Len(publishCalls[k].batch) = BatchCap)
  /\ [](/\ Len(batch) <= BatchCap
        /\ (Len(batch) = BatchCap /\ pc # "done") => pc = "flush_full"
        /\ Len(Emitted) = mergedCount)
  /\ []((pc \in {"cleanup", "done"} /\ mergeCalls = 1 /\ (pc = "done" => result = Nil)) =>
          /\ batch = <<>>
          /\ Len(Published) = mergedCount
          /\ Handed = Published)
  /\ [][/\ mergedCount' = mergedCount + 1 => Emitted' = Append(Emitted, item'.val)
        /\ mergedCount' = mergedCount => Emitted' = Emitted
        /\ Len(publishCalls') > Len(publishCalls) =>
             /\ publishCalls' = Append(publishCalls, publishCalls'[Len(publishCalls')])
             /\ publishCalls'[Len(publishCalls')].batch = batch
             /\ publishCalls'[Len(publishCalls')].err = Nil => batch' = <<>>]_vars

\* C24 witness: three records went out in a call with a full batch and a final
\* call with the remainder
C24_Witness ==
  /\ Succeeded
  /\ Len(publishCalls) = 2
  /\ Len(publishCalls[1].batch) = BatchCap
  /\ Len(publishCalls[2].batch) = 1
  /\ mergedCount = 3

\* the payloads the client delivered for the chunk now in memory, in read order
ChunkPayloads == SubSeq(input, readPos - Len(records) + 1, readPos)

\* the bytes of the records now in memory
RecordBytes == [k \in 1..Len(records) |-> records[k].data]

\* C25: every record stored in a chunk is a private copy of its payload: the
\* client refilling its read buffer on later reads leaves the bytes of the
\* stored records as delivered, so the chunk in memory (in read order until it
\* is sorted, as a multiset afterwards), the spill file written from it and the
\* records published by a run without failure are the delivered payloads.
C25_PrivateCopies ==
  /\ pc \in {"ingest", "chunk_end"} => RecordBytes = ChunkPayloads
  /\ BagOf(RecordBytes) = BagOf(ChunkPayloads)
  /\ (pc \in {"chunk_begin", "phase1_end"} /\ Len(records) > 0) =>
       BagOf(ScanAll(fs[tempFiles[Len(tempFiles)]].bytes, 0)) = BagOf(ChunkPayloads)
  /\ (Succeeded /\ cursorErrs = {}) => BagOf(Published) = BagOf(SubSeq(input, 1, readPos))

\* C25 witness: a chunk holds two records and the client's buffer, refilled by
\* the second read, no longer holds the payload of the first
C25_Witness ==
  /\ pc = "chunk_end"
  /\ Len(records) = 2
  /\ input[readPos] # input[readPos - 1]
  /\ records[1].data = input[readPos - 1]
  /\ records[2].data = input[readPos]

\* the chunk-file operations of sorter p: create (and truncate), read, remove
SpillOps(p) == {o \in fileOps : o.proc = p /\ o.op \in {"create", "read", "remove"}}

\* sorter p has named its temp directory
HasTempDir(p) == sorters[p].tempDir # <<>>

\* C26: two sorter processes with different selectors, running side by side,
\* have different temp directories, each named extsort_<selector>, every
\* chunk file of a sorter lies directly in its own directory, and no chunk-file
\* path that one of them creates, reads or removes is created, read or removed
\* by the other.
C26_DisjointTempDirs ==
  \A p \in Sorters : \A q \in Sorters \ {p} :
    (HasTempDir(p) /\ HasTempDir(q) /\ sorters[p].key # sorters[q].key) =>
       /\ sorters[p].tempDir # sorters[q].tempDir
       /\ sorters[p].tempDir[Len(sorters[p].tempDir)] = StrExtsort \o sorters[p].key
       /\ sorters[p].key \in {StrId, StrName, StrContinent}
       /\ \A o \in SpillOps(p) :
            /\ SubSeq(o.path, 1, Len(o.path) - 1) = sorters[p].tempDir
            /\ \A r \in SpillOps(q) : o.path # r.path

\* C26 witness: an id sorter and a name sorter under the same os.TempDir()
\* have both created a chunk file, and one of them has removed its own
C26_Witness ==
  /\ sorters[1].key = StrId
  /\ sorters[2].key = StrName
  /\ sorters[1].base = sorters[2].base
  /\ \E o \in SpillOps(1) : o.op = "remove"
  /\ \E o \in SpillOps(2) : o.op = "create"
  /\ sorters[2].pc = "sort_chunk"

\* a and b are the same text up to the case of ASCII letters
SameIgnoringCase(a, b) ==
  /\ Len(a) = Len(b)
  /\ \A i \in 1..Len(a) :
       \/ a[i] = b[i]
       \/ /\ a[i] \in 65..90 /\ b[i] = a[i] + 32
       \/ /\ b[i] \in 65..90 /\ a[i] = b[i] + 32

\* the key index the command is to use for argument arg, -1 when arg is none
\* of id, name, continent
ExpectedIndex(arg) ==
  IF SameIgnoringCase(arg, StrId) THEN 0
  ELSE IF SameIgnoringCase(arg, StrName) THEN 1
  ELSE IF SameIgnoringCase(arg, StrContinent) THEN 3
  ELSE -1

\* the command line of sorter p names a key
Accepted(p) == Len(sorters[p].args) >= 2 /\ ExpectedIndex(sorters[p].args[2]) # -1

\* C27: the sorter command accepts exactly id, name and continent in any
\* letter case and maps them to key indices 0, 1 and 3; with no argument or any
\* other argument it exits with status 1 with no reader, no writer and no temp
\* directory created; with an accepted argument it exits with status 1 when
\* ExternalSort returned an error and with status 0 otherwise.
C27_CommandLine ==
  \A p \in Sorters :
    LET s == sorters[p]
    IN /\ (s.exit # -1) <=> (s.pc = "exited")
       /\ s.exit \in {-1, 0, 1}
       /\ (s.pc # "main" /\ ~Accepted(p)) =>
            /\ s.exit = 1
            /\ ~s.clients
            /\ s.tempDir = <<>>
            /\ \A o \in fileOps : o.proc # p
       /\ (s.pc # "main" /\ Accepted(p)) =>
            /\ s.sortIdx = ExpectedIndex(s.args[2])
            /\ s.pc = "exited" => s.exit = (IF s.failed THEN 1 ELSE 0)
            /\ s.pc = "exited" => s.clients
            /\ (\E o \in fileOps : o.proc = p) => s.clients

\* C27 witness: a sorter started with "age" has exited with status 1 and a
\* sorter started with "Name" has sorted by index 1 and exited with status 0
C27_Witness ==
  /\ sorters[1].args = <<StrSorter, StrAge>>
  /\ sorters[1].exit = 1
  /\ sorters[2].args = <<StrSorter, StrNameMixed>>
  /\ sorters[2].sortIdx = 1
  /\ sorters[2].exit = 0
  /\ \E o \in fileOps : o.proc = 2 /\ o.op = "remove"

\* C27 witness: ExternalSort returned an error and the command exited with status 1
C27_WitnessSortError ==
  /\ Accepted(1)
  /\ sorters[1].failed
  /\ sorters[1].exit = 1

C29_WitnessNewDeadline ==
  /\ pc = "ingest"
  /\ Len(tempFiles) = 1
  /\ deadline = "pending"
  /\ Len(records) = 1

\* a chunk with fewer records than the budget has been spilled
PartialChunkSpilled == Len(spilled) > 0 /\ spilled[Len(spilled)] < chunkSize

\* C28: after a chunk with fewer than chunkSize records has been spilled no
\* ReadMessage call is made, no message is consumed and no further chunk is
\* spilled, so every spill file but the last holds exactly chunkSize records;
\* the records the endpoint had not delivered when that chunk's reads ended stay
\* unread, and a run that then succeeds hands over exactly the records read.
C28_NoReadAfterPartialChunk ==
  /\ [](\A j \in 1..(Len(spilled) - 1) : spilled[j] = chunkSize)
  /\ [][PartialChunkSpilled =>
          /\ readsIssued' = readsIssued
          /\ readPos' = readPos
          /\ totalRecordsRead' = totalRecordsRead
          /\ spilled' = spilled
          /\ tempFiles' = tempFiles]_vars
  /\ []((PartialChunkSpilled /\ Succeeded /\ cursorErrs = {}) =>
          /\ totalRecordsRead = readPos
          /\ Len(Handed) = readPos
          /\ BagOf(Handed) = BagOf(SubSeq(input, 1, readPos)))

\* C28 witness: a run succeeded after spilling one partial chunk and left
\* records of the endpoint unread
C28_Witness ==
  /\ Succeeded
  /\ cursorErrs = {}
  /\ chunkSize = 2
  /\ spilled = <<1>>
  /\ PartialChunkSpilled
  /\ readPos < Len(input)
  /\ lastReadErr \in DrainSignals
  /\ Len(Handed) = readPos

\* the records of spill file number k (1-based in tempFiles) that its cursor
\* has not returned yet
Unread(k) == ScanAll(fs[tempFiles[k]].bytes, scanners[k].pos)

\* every spill file of the run reads back in non-decreasing key order
SpillFilesSorted ==
  \A k \in 1..Len(tempFiles) :
    LET recs == ScanAll(fs[tempFiles[k]].bytes, 0)
    IN \A j \in 1..(Len(recs) - 1) : KeyLeq(recs[j], recs[j + 1], sortKeyIndex)

\* an item has just been popped in the current iteration of the merge loop
JustPopped == pc \in {"flush_full", "advance"}

\* C30: at every pop of the merge loop, provided every spill file is sorted,
\* the key of the popped item is less than or equal to the key of every record
\* not yet emitted: the items in the heap and the records still unread in
\* every spill file.
C30_PopIsGlobalMin ==
  (JustPopped /\ SpillFilesSorted) =>
    /\ \A x \in 1..Len(h) : KeyLeq(item.val, h[x].val, sortKeyIndex)
    /\ \A k \in 1..Len(tempFiles) :
         \A j \in 1..Len(Unread(k)) : KeyLeq(item.val, Unread(k)[j], sortKeyIndex)

\* the same statement for merges in which no read of a spill file has failed
C30_PopIsMinWithoutReadError ==
  (JustPopped /\ SpillFilesSorted /\ cursorErrs = {}) =>
    /\ \A x \in 1..Len(h) : KeyLeq(item.val, h[x].val, sortKeyIndex)
    /\ \A k \in 1..Len(tempFiles) :
         \A j \in 1..Len(Unread(k)) : KeyLeq(item.val, Unread(k)[j], sortKeyIndex)

\* the chunk files (1-based in tempFiles) that hold no byte on disk
EmptyOnDisk == {k \in 1..Len(tempFiles) : fs[tempFiles[k]].bytes = <<>>}

\* the records of chunk files 1..k, file after file
RECURSIVE FileRecords(_)
FileRecords(k) ==
  IF k = 0 THEN <<>> ELSE FileRecords(k - 1) \o ScanAll(fs[tempFiles[k]].bytes, 0)

\* kWayMergeToKafka has returned, and not because an open or a publish failed
MergeRanThrough ==
  /\ mergeCalls = 1
  /\ pc \in {"cleanup", "done"}
  /\ ~(pc = "done" /\ result.op \in {"open", "publish"})

\* C31: a spill file that is empty on disk gives no record on its first read
\* and contributes no heap item; it does not make the merge fail: with no read
\* error on a cursor and no failed open or publish, the merge returns nil and
\* has handed over all records of the other files in sorted order.
C31_EmptyFileOmitted ==
  /\ \A x \in 1..Len(h) : (h[x].i + 1) \notin EmptyOnDisk
  /\ pc \in {"flush_full", "advance"} => (item.i + 1) \notin EmptyOnDisk
  /\ (pc = "merge_loop" /\ cursorErrs = {}) =>
       \A k \in EmptyOnDisk : scanners[k] = [state |-> "open", pos |-> 0]
  /\ (EmptyOnDisk # {} /\ MergeRanThrough /\ cursorErrs = {}) =>
       /\ pc = "cleanup"
       /\ result = Nil
       /\ mergedCount = Len(FileRecords(Len(tempFiles)))
       /\ Handed = Published
       /\ BagOf(Handed) = BagOf(FileRecords(Len(tempFiles)))
       /\ \A i \in 1..(Len(Handed) - 1) : KeyLeq(Handed[i], Handed[i + 1], sortKeyIndex)

\* C31 witness: the first of two files is empty on disk and the merge has
\* returned nil after handing over the two records of the other file
C31_Witness ==
  /\ pc = "cleanup"
  /\ Len(tempFiles) = 2
  /\ EmptyOnDisk = {1}
  /\ cursorErrs = {}
  /\ Len(Handed) = 2
  /\ result = Nil

\* kWayMergeToKafka has been called and has returned
MergeReturned == mergeCalls = 1 /\ pc \in {"cleanup", "done"}

\* C33: every spill-file scanner opened by kWayMergeToKafka is closed by the
\* time kWayMergeToKafka returns, on every path: successful merge, publish
\* error, and failure to open a later file after earlier ones were opened.
C33_ScannersClosedOnReturn ==
  MergeReturned => \A k \in 1..Len(scanners) : scanners[k].state # "open"

\* the same statement for the returns that come after the open loop
C33_ClosedAfterOpenLoop ==
  (MergeReturned /\ ~(pc = "done" /\ result = ErrSpillOpen)) =>
    /\ Len(scanners) = Len(tempFiles)
    /\ \A k \in 1..Len(scanners) : scanners[k].state = "closed"

\* a WriteMessages call of the merge has failed
PublishFailed == \E k \in 1..Len(publishCalls) : publishCalls[k].err # Nil

\* how often x occurs in the sequence s
Count(s, x) == Cardinality({i \in 1..Len(s) : s[i] = x})

\* Published is a prefix of a sorted arrangement of all records of the chunk
\* files: it is sorted, it takes its records from the files, and no record
\* left out has a smaller key than a published one
PublishedIsSortedPrefix ==
  LET all == FileRecords(Len(tempFiles))
  IN /\ \A i \in 1..(Len(Published) - 1) :
          KeyLeq(Published[i], Published[i + 1], sortKeyIndex)
     /\ \A i \in 1..Len(Published) : Count(Published, Published[i]) <= Count(all, Published[i])
     /\ \A j \in 1..Len(all) :
          Count(Published, all[j]) < Count(all, all[j]) =>
            \A i \in 1..Len(Published) : KeyLeq(Published[i], all[j], sortKeyIndex)

\* C34: when a publish call fails during the merge, the failed batch and the
\* records not yet popped are never published and the earlier successful calls
\* stay published: the output is a sorted prefix of the full sorted sequence,
\* a multiple of BatchCap (1000 in the program) records long.
C34_FailureLeavesSortedPrefix ==
  PublishFailed =>
    /\ pc = "done"
    /\ publishCalls[Len(publishCalls)].err # Nil
    /\ Published = Flatten(SubSeq(publishCalls, 1, Len(publishCalls) - 1))
    /\ Len(Published) = BatchCap * (Len(publishCalls) - 1)
    /\ PublishedIsSortedPrefix

\* the same statement for merges in which no read of a spill file has failed
C34_PrefixWithoutReadError ==
  (PublishFailed /\ cursorErrs = {}) =>
    /\ pc = "done"
    /\ publishCalls[Len(publishCalls)].err # Nil
    /\ Published = Flatten(SubSeq(publishCalls, 1, Len(publishCalls) - 1))
    /\ Len(Published) = BatchCap * (Len(publishCalls) - 1)
    /\ PublishedIsSortedPrefix

\* the number of records written to the spill files of this run
RECURSIVE SumOf(_)
SumOf(s) == IF Len(s) = 0 THEN 0 ELSE s[1] + SumOf(Tail(s))

\* the merge loop was entered and kWayMergeToKafka has returned
MergeLoopEnded == MergeReturned /\ ~(pc = "done" /\ result = ErrSpillOpen)

RECURSIVE HandedOver(_)
\* the records handed to WriteMessages by the calls cs
HandedOver(cs) == IF cs = <<>> THEN 0 ELSE Head(cs).n + HandedOver(Tail(cs))

\* the workers that hold a generated record not yet sent on the channel
Sending == {w \in DOMAIN producer.worker : producer.worker[w] = "send"}

\* the records main holds in a batch it has not yet published
Unpublished == IF producer.at = "collect" THEN producer.batch ELSE 0

\* C35: for any number of workers and any interleaving exactly totalRecords
\* jobs are enqueued, exactly totalRecords records are generated and sent on
\* the records channel, and exactly totalRecords records are handed to
\* WriteMessages, in batches of at most 1000 (producerBatchCap) records each:
\* no count ever passes totalRecords, nothing is lost between the stages, and
\* in the end every count is totalRecords
C35_ExactCounts ==
  /\ [](/\ producer.i <= totalRecords
        /\ producer.generated = producer.i - producer.jobs
        /\ producer.delivered = producer.generated - Cardinality(Sending)
        /\ producer.sent = producer.delivered - producer.records
        /\ HandedOver(producer.calls) = producer.sent - Unpublished
        /\ \A k \in 1..Len(producer.calls) : producer.calls[k].n \in 1..producerBatchCap)
  /\ <>[](/\ producer.i = totalRecords
          /\ producer.generated = totalRecords
          /\ producer.delivered = totalRecords
          /\ HandedOver(producer.calls) = totalRecords)

\* the producer has finished with the most workers, a full batch and a last
\* partial one: three jobs, three records, three published
C35_Witness ==
  /\ producer.completed
  /\ Cardinality(DOMAIN producer.worker) = MaxWorkers
  /\ producer.i = totalRecords
  /\ producer.generated = totalRecords
  /\ producer.delivered = totalRecords
  /\ Len(producer.calls) = 2
  /\ producer.calls[1].n = producerBatchCap
  /\ producer.calls[2].n = totalRecords - producerBatchCap

\* every worker has left its loop and called wg.Done
WorkersGone ==
  /\ \A w \in DOMAIN producer.worker : producer.worker[w] = "done"
  /\ producer.wg = 0

\* C36: the producer's goroutines never deadlock and never send on a closed
\* channel: jobs is closed only after all totalRecords jobs were enqueued,
\* records is closed only after main received all totalRecords records, when
\* no worker holds a record to send; every worker then exits, wg.Wait
\* returns, and the writer is closed exactly once afterwards
C36_NoDeadlockNoSendOnClosed ==
  /\ [](~producer.panicked)
  /\ [](producer.jobsClosed => producer.i = totalRecords)
  /\ [](producer.recordsClosed =>
          /\ producer.sent = totalRecords
          /\ Sending = {}
          /\ producer.records = 0)
  /\ [](producer.at # "exit" => ENABLED NextProducer)
  /\ [](producer.at \in {"close_writer", "exit"} => WorkersGone)
  /\ [](producer.writerClosed = (IF producer.at = "exit" THEN 1 ELSE 0))
  /\ (producer.recordsClosed ~> WorkersGone)
  /\ <>[](producer.at = "exit" /\ producer.writerClosed = 1)

\* main has closed records while the enqueuer has not yet closed jobs and a
\* worker still waits in its range loop
C36_Witness ==
  /\ producer.recordsClosed
  /\ ~producer.jobsClosed
  /\ producer.at = "wait"
  /\ \E w \in DOMAIN producer.worker : producer.worker[w] = "range"

\* the producer has ended: both channels closed, every worker gone, the
\* writer closed once
C36_WitnessEnd ==
  /\ producer.at = "exit"
  /\ producer.jobsClosed
  /\ producer.recordsClosed
  /\ WorkersGone
  /\ Cardinality(DOMAIN producer.worker) = MaxWorkers
  /\ producer.writerClosed = 1

\* some call of WriteMessages returned an error
SomeCallFailed == \E k \in 1..Len(producer.calls) : producer.calls[k].failed

\* main is returning from a call of WriteMessages
CallReturns == producer'.calls # producer.calls

\* C37: an error returned by WriteMessages for a batch does not stop or
\* retry: the batch's records stay counted in sent, the loop goes on with the
\* next batch (or ends when sent has reached totalRecords), every record is
\* handed over once, and the producer still terminates after exactly
\* totalRecords records were taken from the records channel and reports
\* completion
C37_WriteErrorDoesNotStop ==
  /\ [][CallReturns =>
          /\ producer'.sent = producer.sent
          /\ producer'.calls = Append(producer.calls, producer'.calls[Len(producer'.calls)])
          /\ producer'.at = (IF producer.sent < totalRecords THEN "collect" ELSE "close_records")
          /\ producer'.batch = (IF producer.sent < totalRecords THEN 0 ELSE producer.batch)]_vars
  /\ [](HandedOver(producer.calls) + Unpublished = producer.sent)
  /\ [](producer.completed => producer.sent = totalRecords /\ producer.records = 0)
  /\ (SomeCallFailed ~> producer.completed)
  /\ <>[]producer.completed

\* every call failed, and the producer completed with all records taken
C37_Witness ==
  /\ producer.completed
  /\ producer.sent = totalRecords
  /\ Len(producer.calls) = 2
  /\ \A k \in 1..Len(producer.calls) : producer.calls[k].failed

====
